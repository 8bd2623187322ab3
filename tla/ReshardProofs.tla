--------------------------- MODULE ReshardProofs ---------------------------
(***************************************************************************)
(* Proofs about ReshardManager, for any number of reshards of a key.       *)
(*                                                                         *)
(* The argument.  The sends are matched in their order, so the manager of  *)
(* the source is known from how many are matched (SourceLists), that of    *)
(* the target from how many receives are issued (TargetLists).  The name   *)
(* of a receive is in one place only (Pairing): on its way, in the list of *)
(* the source, or used by one copy.  What an event waits for is given by   *)
(* the copy it belongs to (Waits).  Two facts then follow as events fire:  *)
(* a copy for a later receive cannot happen, because that receive is not   *)
(* ready before this copy is done, so the first copy that is acknowledged  *)
(* out of order does not exist (Order).                                    *)
(***************************************************************************)
EXTENDS ReshardManager, SeqLemmas, TLAPS, FiniteSetTheorems

\* The queues, and how long they are: sends and receives that wait in the source's
\* manager, receives that wait in a remote target's, name messages on their way.
Sends == mgr["src"].psrc
Recvs == mgr["src"].pdst
Known == mgr["tgt"].pdst
Mail  == net["src"]
Acks  == net["tgt"]
NSends == Len(Sends)
NRecvs == Len(Recvs)
NMail  == Len(Mail)

\* The sends that are paired with a receive: all but those that wait.
Matched == sIssued - NSends

\* Generation of the ack barrier each manager is at; 0 when it has none.
SAck == mgr["src"].ack
TAck == mgr["tgt"].ack

\* Name messages cannot overtake each other.
InOrder == Fifo \/ ~remote

-----------------------------------------------------------------------------
(***************************************************************************)
(* The inductive invariant.                                                *)
(***************************************************************************)

\* The manager the source uses.
SourceLists ==
  /\ Matched >= 0
  /\ NSends = 0 \/ NRecvs = 0
  /\ \A j \in 1 .. NSends : Sends[j].op = Matched + j /\ Sends[j].pre = {SReady(Matched + j)}
  /\ remote /\ sIssued > 0 => SAck = Matched + 1
  /\ ~remote \/ sIssued = 0 => SAck = 0
  /\ \A j \in 1 .. NRecvs : /\ remote => Recvs[j].pre = {Ready(Recvs[j].op)}
                            /\ ~remote => Recvs[j].pre = DstPrecondition(Recvs[j].op)

\* The manager of a remote target: until it knows the ack barrier all receives wait.
TargetLists ==
  /\ mgr["tgt"].psrc = <<>>
  /\ ~remote => Known = <<>>
  /\ remote => mgr["tgt"].ready = tIssued
  /\ remote /\ TAck = 0 => Len(Known) = tIssued /\ \A j \in 1 .. tIssued : Known[j].op = j
  /\ remote /\ TAck # 0 => TAck = tIssued + 1 /\ Known = <<>> /\ sIssued > 0

\* The messages on their way: the names of receives to the source, the barrier to the
\* target, once.
Messages ==
  /\ ~remote => NMail = 0
  /\ \A j \in 1 .. NMail : Mail[j].inst # 0 /\ Mail[j].barrier = Mail[j].inst
  /\ remote /\ sIssued > 0 /\ TAck = 0 => Acks = <<[barrier |-> 1, inst |-> 0]>>
  /\ ~remote \/ sIssued = 0 \/ TAck # 0 => Acks = <<>>

\* A receive is named in one place only, and never before it is issued.
Pairing ==
  /\ \A k \in Op : /\ (copyTo[k] # 0) <=> (k <= Matched)
                   /\ copyTo[k] <= tIssued
                   /\ \A i \in Op : copyTo[k] # 0 /\ copyTo[k] = copyTo[i] => i = k
                   /\ \A j \in 1 .. NRecvs : copyTo[k] # Recvs[j].op
                   /\ \A j \in 1 .. NMail : copyTo[k] # Mail[j].inst
  /\ \A j \in 1 .. NRecvs : /\ Recvs[j].op <= tIssued
                            /\ \A i \in 1 .. NRecvs : Recvs[i].op = Recvs[j].op => i = j
                            /\ \A i \in 1 .. NMail : Mail[i].inst # Recvs[j].op
  /\ \A j \in 1 .. NMail : /\ Mail[j].inst <= tIssued
                           /\ \A i \in 1 .. NMail : Mail[i].inst = Mail[j].inst => i = j

\* If the names cannot overtake each other they are in the order of the receives.
NamesInOrder ==
  InOrder =>
    /\ Matched + NRecvs + NMail = tIssued
    /\ \A k \in Op : k <= Matched => copyTo[k] = k
    /\ \A j \in 1 .. NRecvs : Recvs[j].op = Matched + j
    /\ \A j \in 1 .. NMail : Mail[j].inst = Matched + NRecvs + j

\* The events the two sides were given.
Posts ==
  \A k \in Op :
    /\ k <= sIssued => spost[k] \in {{SUser(k)}, {CopyEv(k)}}
    /\ k <= tIssued /\ remote => tpost[k] \in {{TUser(k)}, {Ack(k)}}
    /\ k <= tIssued /\ ~remote => tpost[k] \in {{TUser(k)}, {CopyEv(k)}}

\* Which events will trigger: those of the operations issued and of the pairs made.
Armed ==
  \A k \in Op :
    /\ (SReady(k) \in armed) <=> (k <= sIssued)
    /\ (TReady(k) \in armed) <=> (k <= tIssued)
    /\ (CopyEv(k) \in armed) <=> (k <= Matched)
    /\ (Ready(k) \in armed) <=> (remote /\ k <= tIssued)
    /\ (Ack(k) \in armed) <=> (remote /\ k <= Matched)
    /\ SUser(k) \in armed => k <= Matched
    /\ TUser(k) \in armed /\ remote => TAck # 0 /\ k <= tIssued
    /\ TUser(k) \in armed /\ ~remote => k <= Matched

\* After which others they trigger.
Waits ==
  \A k \in Op :
    /\ CopyEv(k) \in armed /\ remote => after[CopyEv(k)] = {Ready(copyTo[k]), SReady(k)}
    /\ CopyEv(k) \in armed /\ ~remote => after[CopyEv(k)] = DstPrecondition(k) \cup {SReady(k)}
    /\ Ready(k) \in armed => after[Ready(k)] = DstPrecondition(k)
    /\ Ack(k) \in armed => after[Ack(k)] = {CopyEv(k)}
    /\ SUser(k) \in armed => after[SUser(k)] = {CopyEv(k)}
    /\ TUser(k) \in armed /\ remote => after[TUser(k)] = {Ack(k)}
    /\ TUser(k) \in armed /\ ~remote => after[TUser(k)] = {CopyEv(k)}

\* An event has triggered after those it waits for, a generation after those before it.
Fired ==
  /\ \A e \in fired : after[e] \subseteq fired
  /\ \A k \in Op : Ack(k) \in fired => \A g \in 1 .. k - 1 : Ack(g) \in fired

\* No copy for a later receive happens, and no copy for another receive is ever
\* acknowledged.  In order, a copy happens when the target has seen all before it.
Order ==
  /\ remote => \A k \in Op : /\ CopyEv(k) \in fired => copyTo[k] <= k
                             /\ Ack(k) \in fired => copyTo[k] = k
  /\ InOrder => \A k \in Op : CopyEv(k) \in fired => \A i \in 1 .. k - 1 : ReceivedDone(i)

IInv ==
  /\ TypeOK /\ SourceLists /\ TargetLists /\ Messages /\ Pairing /\ NamesInOrder
  /\ Posts /\ Armed /\ Waits /\ Fired /\ Order

-----------------------------------------------------------------------------
(***************************************************************************)
(* The domains.                                                            *)
(***************************************************************************)
\* The fields of an event, by which events differ.
LEMMA EventFields ==
  \A k : /\ SReady(k)[1] = "sready" /\ SReady(k)[2] = k
         /\ TReady(k)[1] = "tready" /\ TReady(k)[2] = k
         /\ SUser(k)[1] = "suser" /\ SUser(k)[2] = k
         /\ TUser(k)[1] = "tuser" /\ TUser(k)[2] = k
         /\ CopyEv(k)[1] = "copy" /\ CopyEv(k)[2] = k
         /\ Ready(k)[1] = "ready" /\ Ready(k)[2] = k
         /\ Ack(k)[1] = "ack" /\ Ack(k)[2] = k
BY DEF SReady, TReady, SUser, TUser, CopyEv, Ready, Ack

\* The events of a copy are different ones.
LEMMA EventsDiffer ==
  \A i, j : /\ SReady(i) # CopyEv(j) /\ SReady(i) # Ack(j) /\ SReady(i) # TUser(j)
           /\ TReady(i) # CopyEv(j) /\ TReady(i) # SUser(j) /\ TReady(i) # Ready(j)
           /\ CopyEv(i) # Ack(j) /\ CopyEv(i) # TUser(j) /\ CopyEv(i) # SUser(j)
           /\ Ack(i) # SUser(j)
BY DEF SReady, TReady, SUser, TUser, CopyEv, Ready, Ack

\* Every event of an operation is in the domain of the event fields, and there are no
\* others.
LEMMA EventType ==
  /\ \A k \in Op : /\ SReady(k) \in Event /\ TReady(k) \in Event /\ SUser(k) \in Event
                   /\ TUser(k) \in Event /\ CopyEv(k) \in Event /\ Ready(k) \in Event
                   /\ Ack(k) \in Event
  /\ \A e \in Event : \E k \in Op :
       e \in {SReady(k), TReady(k), SUser(k), TUser(k), CopyEv(k), Ready(k), Ack(k)}
BY DEF Event, EventKinds, SReady, TReady, SUser, TUser, CopyEv, Ready, Ack

\* The numbers of the operations.
LEMMA Domains ==
  /\ NOps \in Nat /\ Op \subseteq Nat /\ \A k \in Int : k \in Op <=> 1 <= k /\ k <= NOps
  /\ "src" \in Node /\ "tgt" \in Node /\ Node = {"src", "tgt"}
BY NOpsAssumption DEF Op, Node

\* The queues of the managers and the network.
LEMMA QueueType ==
  ASSUME TypeOK
  PROVE  /\ sIssued \in Nat /\ tIssued \in Nat /\ sIssued <= NOps /\ tIssued <= NOps
         /\ mgr["src"] \in Manager /\ mgr["tgt"] \in Manager
         /\ SAck \in Nat /\ TAck \in Nat
         /\ Sends \in Seq(Pending) /\ Recvs \in Seq(Pending) /\ Known \in Seq(Pending)
         /\ Mail \in Seq(Name) /\ Acks \in Seq(Name)
         /\ NSends \in Nat /\ NRecvs \in Nat /\ NMail \in Nat
         /\ \A j \in 1 .. NSends : Sends[j] \in Pending
         /\ \A j \in 1 .. NRecvs : Recvs[j] \in Pending /\ Recvs[j].op \in Op
         /\ \A j \in 1 .. NMail : Mail[j] \in Name
<1>1. sIssued \in Nat /\ tIssued \in Nat /\ sIssued <= NOps /\ tIssued <= NOps
  BY Domains DEF TypeOK
<1>2. mgr["src"] \in Manager /\ mgr["tgt"] \in Manager BY Domains DEF TypeOK
<1>3. /\ SAck \in Nat /\ TAck \in Nat
      /\ Sends \in Seq(Pending) /\ Recvs \in Seq(Pending) /\ Known \in Seq(Pending)
  BY <1>2 DEF Manager, SAck, TAck, Sends, Recvs, Known
<1>4. Mail \in Seq(Name) /\ Acks \in Seq(Name) BY Domains DEF TypeOK, Mail, Acks
<1>5. \A q \in Seq(Pending) : Len(q) \in Nat /\ \A j \in 1 .. Len(q) : q[j] \in Pending
  OBVIOUS
<1>6. \A q \in Seq(Name) : Len(q) \in Nat /\ \A j \in 1 .. Len(q) : q[j] \in Name
  OBVIOUS
<1>7. \A p \in Pending : p.op \in Op BY DEF Pending
<1>8. /\ NSends \in Nat /\ NRecvs \in Nat /\ NMail \in Nat
      /\ \A j \in 1 .. NSends : Sends[j] \in Pending
      /\ \A j \in 1 .. NRecvs : Recvs[j] \in Pending
      /\ \A j \in 1 .. NMail : Mail[j] \in Name
  BY <1>3, <1>4, <1>5, <1>6 DEF NSends, NRecvs, NMail
<1> QED BY <1>1, <1>2, <1>3, <1>4, <1>7, <1>8

\* What a receive waits for are events, and stays the same once it is issued.
LEMMA DstPreconditionType ==
  ASSUME TypeOK, NEW k \in Op
  PROVE  /\ DstPrecondition(k) \in SUBSET Event
         /\ k = 1 \/ k - 1 \in Op
<1>1. k = 1 \/ k - 1 \in Op BY Domains
<1>2. \A i \in Op : tpost[i] \in SUBSET Event BY DEF TypeOK
<1>3. TReady(k) \in Event BY EventType
<1> QED BY <1>1, <1>2, <1>3 DEF DstPrecondition

\* The numbers of a state.
LEMMA Counts ==
  ASSUME IInv
  PROVE  /\ TypeOK /\ sIssued \in Nat /\ tIssued \in Nat
         /\ sIssued <= NOps /\ tIssued <= NOps
         /\ NSends \in Nat /\ NRecvs \in Nat /\ NMail \in Nat
         /\ Matched \in Nat /\ Matched <= sIssued /\ Matched + NSends = sIssued
         /\ ~remote => Matched <= tIssued
<1>1. TypeOK BY DEF IInv
<1>2. /\ sIssued \in Nat /\ tIssued \in Nat /\ sIssued <= NOps /\ tIssued <= NOps
      /\ NSends \in Nat /\ NRecvs \in Nat /\ NMail \in Nat
  BY <1>1, QueueType
<1>3. Matched >= 0 BY DEF IInv, SourceLists
<1>4. ~remote => Matched + NRecvs + NMail = tIssued
  BY DEF IInv, NamesInOrder, InOrder
<1>5. Matched \in Nat /\ Matched <= sIssued /\ Matched + NSends = sIssued
  BY <1>2, <1>3 DEF Matched
<1>6. ~remote => Matched <= tIssued BY <1>2, <1>4, <1>5
<1> QED BY <1>1, <1>2, <1>5, <1>6

-----------------------------------------------------------------------------
(***************************************************************************)
(* Steps that trigger nothing.                                             *)
(***************************************************************************)
\* The events N are armed, each for the first time.
Arms(N) ==
  /\ armed' = armed \cup N
  /\ N \subseteq Event
  /\ \A e \in Event \ N : after'[e] = after[e]
  /\ after' \in [Event -> SUBSET Event]

\* Nothing is triggered and nothing decided earlier changes.
Grows(N) ==
  /\ Arms(N) /\ N \cap armed = {}
  /\ remote' = remote /\ fired' = fired
  /\ sIssued' \in Nat /\ sIssued <= sIssued' /\ tIssued' \in Nat /\ tIssued <= tIssued'
  /\ \A k \in Op : /\ k <= Matched => copyTo'[k] = copyTo[k]
                   /\ k <= sIssued => spost'[k] = spost[k]
                   /\ k <= tIssued => tpost'[k] = tpost[k]

\* What has happened is not affected.
LEMMA GrowsKeeps ==
  ASSUME IInv, NEW N, Grows(N)
  PROVE  /\ Fired' /\ Order'
         /\ \A e \in armed : after'[e] = after[e]
         /\ \A k \in Op : k <= tIssued + 1 => DstPrecondition(k)' = DstPrecondition(k)
<1>1. armed \subseteq Event /\ fired \subseteq armed /\ tIssued \in Nat /\ tIssued' \in Nat
  BY QueueType DEF IInv, TypeOK, Grows
<1>2. \A e \in armed : after'[e] = after[e] BY <1>1 DEF Grows, Arms
<1>3. fired' = fired /\ remote' = remote BY DEF Grows
<1>4. Fired' BY <1>1, <1>2, <1>3 DEF IInv, Fired
<1>5. \A k \in Op : Ack(k) \in fired \/ CopyEv(k) \in fired => copyTo'[k] = copyTo[k]
  BY <1>1 DEF Grows, IInv, Armed
<1>6. \A k \in Op : ReceivedDone(k) => ReceivedDone(k)'
  BY <1>1, <1>3, Domains DEF Grows, ReceivedDone
<1>7. Order'
  <2>1. \A k \in Op : \A i \in 1 .. k - 1 : i \in Op BY Domains
  <2> QED BY <1>3, <1>5, <1>6, <2>1 DEF IInv, Order, InOrder
<1>8. \A k \in Op : k <= tIssued + 1 => DstPrecondition(k)' = DstPrecondition(k)
  BY <1>1, Domains DEF DstPrecondition, Grows
<1> QED BY <1>2, <1>4, <1>7, <1>8

\* What a handler arms.
LEMMA ArmArms ==
  ASSUME TypeOK, NEW f, Arm(f), DOMAIN f \subseteq Event,
         \A e \in DOMAIN f : f[e] \in SUBSET Event
  PROVE  Arms(DOMAIN f) /\ \A e \in DOMAIN f : after'[e] = f[e]
<1>1. /\ armed' = armed \cup DOMAIN f
      /\ after' = [e \in Event |-> IF e \in DOMAIN f THEN f[e] ELSE after[e]]
  BY DEF Arm
<1>2. \A e \in Event : after'[e] \in SUBSET Event BY <1>1 DEF TypeOK
<1> QED BY <1>1, <1>2 DEF Arms

\* The events N wait for what Waits says.
NewWaits(N) ==
  \A k \in Op :
    /\ CopyEv(k) \in N /\ remote => after'[CopyEv(k)] = {Ready(copyTo'[k]), SReady(k)}
    /\ CopyEv(k) \in N /\ ~remote => after'[CopyEv(k)] = DstPrecondition(k)' \cup {SReady(k)}
    /\ Ready(k) \in N => after'[Ready(k)] = DstPrecondition(k)'
    /\ Ack(k) \in N => after'[Ack(k)] = {CopyEv(k)}
    /\ SUser(k) \in N => after'[SUser(k)] = {CopyEv(k)}
    /\ TUser(k) \in N /\ remote => after'[TUser(k)] = {Ack(k)}
    /\ TUser(k) \in N /\ ~remote => after'[TUser(k)] = {CopyEv(k)}

\* It is enough to look at the events armed last.
LEMMA WaitsKept ==
  ASSUME IInv, NEW N, Grows(N), NewWaits(N)
  PROVE  Waits'
<1>1. /\ \A e \in armed : after'[e] = after[e]
      /\ \A k \in Op : k <= tIssued + 1 => DstPrecondition(k)' = DstPrecondition(k)
  BY GrowsKeeps
<1>2. armed' = armed \cup N /\ remote' = remote BY DEF Grows, Arms
<1> SUFFICES ASSUME NEW k \in Op
             PROVE  /\ CopyEv(k) \in armed' /\ remote =>
                         after'[CopyEv(k)] = {Ready(copyTo'[k]), SReady(k)}
                    /\ CopyEv(k) \in armed' /\ ~remote =>
                         after'[CopyEv(k)] = DstPrecondition(k)' \cup {SReady(k)}
                    /\ Ready(k) \in armed' => after'[Ready(k)] = DstPrecondition(k)'
                    /\ Ack(k) \in armed' => after'[Ack(k)] = {CopyEv(k)}
                    /\ SUser(k) \in armed' => after'[SUser(k)] = {CopyEv(k)}
                    /\ TUser(k) \in armed' /\ remote => after'[TUser(k)] = {Ack(k)}
                    /\ TUser(k) \in armed' /\ ~remote => after'[TUser(k)] = {CopyEv(k)}
  BY <1>2 DEF Waits
<1>3. k \in Nat /\ Matched \in Nat /\ tIssued \in Nat /\ (~remote => Matched <= tIssued)
  BY Counts, Domains
<1>4. CopyEv(k) \in armed => k <= Matched /\ copyTo'[k] = copyTo[k]
  BY DEF IInv, Armed, Grows
<1>5. Ready(k) \in armed => k <= tIssued BY DEF IInv, Armed
<1>6. CopyEv(k) \in armed' /\ remote => after'[CopyEv(k)] = {Ready(copyTo'[k]), SReady(k)}
  BY <1>1, <1>2, <1>4 DEF IInv, Waits, NewWaits
<1>7. CopyEv(k) \in armed' /\ ~remote =>
        after'[CopyEv(k)] = DstPrecondition(k)' \cup {SReady(k)}
  <2>1. CopyEv(k) \in armed /\ ~remote => k <= tIssued + 1 BY <1>3, <1>4
  <2> QED BY <1>1, <1>2, <2>1 DEF IInv, Waits, NewWaits
<1>8. Ready(k) \in armed' => after'[Ready(k)] = DstPrecondition(k)'
  <2>1. Ready(k) \in armed => k <= tIssued + 1 BY <1>3, <1>5
  <2> QED BY <1>1, <1>2, <2>1 DEF IInv, Waits, NewWaits
<1>9. /\ Ack(k) \in armed' => after'[Ack(k)] = {CopyEv(k)}
      /\ SUser(k) \in armed' => after'[SUser(k)] = {CopyEv(k)}
  BY <1>1, <1>2 DEF IInv, Waits, NewWaits
<1>10. /\ TUser(k) \in armed' /\ remote => after'[TUser(k)] = {Ack(k)}
       /\ TUser(k) \in armed' /\ ~remote => after'[TUser(k)] = {CopyEv(k)}
  BY <1>1, <1>2 DEF IInv, Waits, NewWaits
<1> QED BY <1>6, <1>7, <1>8, <1>9, <1>10

-----------------------------------------------------------------------------
(***************************************************************************)
(* RendezvousReshardFromLocalSource.                                       *)
(***************************************************************************)
\* The first send to a remote target names the ack barrier; no other sends a message.
LEMMA SendCommon ==
  ASSUME IInv, NEW s \in Op, FromLocalSource(s)
  PROVE  /\ s = sIssued + 1 /\ sIssued' = s
         /\ remote' = remote /\ tIssued' = tIssued /\ tpost' = tpost /\ fired' = fired
         /\ NeedsAckBarrier(mgr[Src]) <=> remote /\ sIssued = 0
         /\ net' \in [Node -> Seq(Name)] /\ Mail' = Mail
         /\ remote /\ sIssued = 0 => Acks' = <<[barrier |-> 1, inst |-> 0]>>
         /\ ~remote \/ sIssued > 0 => Acks' = Acks
<1> DEFINE msg == [barrier |-> 1, inst |-> 0]
<1>1. s = sIssued + 1 /\ sIssued' = s /\ UNCHANGED <<remote, tIssued, tpost, fired>>
  BY DEF FromLocalSource
<1>2. NeedsAckBarrier(mgr[Src]) <=> remote /\ sIssued = 0
  BY Counts DEF IInv, SourceLists, NeedsAckBarrier, Src, NoBarrier, SAck
<1>3. net \in [Node -> Seq(Name)] /\ msg \in Name BY Counts, Domains DEF TypeOK, Name
<1>4. CASE remote /\ sIssued = 0
  <2>1. net' = [net EXCEPT !["tgt"] = Append(@, msg)]
    BY <1>2, <1>4 DEF FromLocalSource, SendNames, Tgt
  <2>2. net["tgt"] = <<>> BY <1>4 DEF IInv, Messages, Acks
  <2>3. Append(net["tgt"], msg) = <<msg>> BY <2>2
  <2> HIDE DEF msg
  <2>4. net' = [net EXCEPT !["tgt"] = <<msg>>] BY <2>1, <2>3
  <2>5. <<msg>> \in Seq(Name) BY <1>3
  <2>6. net'["src"] = net["src"] /\ net'["tgt"] = <<msg>> BY <1>3, <2>4, Domains
  <2>7. net' \in [Node -> Seq(Name)] BY <1>3, <2>4, <2>5, Domains
  <2> QED BY <1>1, <1>2, <1>4, <2>6, <2>7, Counts DEF msg, Mail, Acks
<1>5. CASE ~remote \/ sIssued > 0
  <2>1. ~(remote /\ sIssued = 0) BY <1>5, Counts
  <2>2. net' = net
    BY <1>2, <2>1 DEF FromLocalSource
  <2> QED BY <1>1, <1>2, <1>3, <2>1, <2>2 DEF Mail, Acks
<1> QED BY <1>4, <1>5, Counts


\* A send that finds no receive waits for one.
LEMMA SendWaits ==
  ASSUME IInv, NEW s \in Op, FromLocalSource(s), Recvs = <<>>
  PROVE  IInv'
<1> DEFINE op == PendingOp(s, {SReady(s)})
           ack == IF remote /\ sIssued = 0 THEN 1 ELSE SAck
<1>1. /\ TypeOK /\ sIssued \in Nat /\ tIssued \in Nat /\ NSends \in Nat
      /\ Matched \in Nat /\ Matched + NSends = sIssued /\ s \in Nat
  BY Counts, Domains
<1>2. /\ s = sIssued + 1 /\ sIssued' = s
      /\ remote' = remote /\ tIssued' = tIssued /\ tpost' = tpost /\ fired' = fired
      /\ net' \in [Node -> Seq(Name)] /\ Mail' = Mail
      /\ remote /\ sIssued = 0 => Acks' = <<[barrier |-> 1, inst |-> 0]>>
      /\ ~remote \/ sIssued > 0 => Acks' = Acks
  BY SendCommon
<1>3. PICK j \in 0 .. s - 1 :
        /\ mgr' = [mgr EXCEPT !["src"].ack = ack, !["src"].psrc = Append(@, op)]
        /\ spost' = [spost EXCEPT ![s] = {SUser(s)}]
        /\ Arm([e \in {SReady(s)} |-> UNION {spost[i] : i \in 1 .. j}])
        /\ copyTo' = copyTo
  <2>1. NeedsAckBarrier(mgr[Src]) <=> remote /\ sIssued = 0 BY SendCommon
  <2> QED BY <2>1 DEF FromLocalSource, Src, SrcPrecondition, Recvs, SAck
<1>4. /\ op \in Pending /\ op.op = s /\ op.pre = {SReady(s)} /\ ack \in Nat
      /\ mgr \in [Node -> Manager] /\ Sends \in Seq(Pending)
  BY <1>1, EventType, QueueType DEF PendingOp, Pending, TypeOK
<1> HIDE DEF op, ack
<1>5. Append(Sends, op) \in Seq(Pending) BY <1>4
<1>6. /\ mgr'["src"] = [mgr["src"] EXCEPT !.ready = @, !.ack = ack,
                                           !.psrc = Append(Sends, op), !.pdst = @]
      /\ mgr'["tgt"] = mgr["tgt"]
      /\ mgr' = [mgr EXCEPT !["src"] = mgr'["src"]]
  BY <1>3, <1>4, Domains DEF Sends
<1>7. /\ mgr'["src"] \in Manager /\ mgr'["src"].ack = ack
      /\ mgr'["src"].psrc = Append(Sends, op) /\ mgr'["src"].pdst = mgr["src"].pdst
  <2>1. mgr["src"] \in Manager /\ mgr["src"].ready \in Nat /\ mgr["src"].pdst \in Seq(Pending)
    BY <1>1, QueueType DEF Manager
  <2>2. mgr'["src"] = [mgr["src"] EXCEPT !.ready = mgr["src"].ready, !.ack = ack,
                          !.psrc = Append(Sends, op), !.pdst = mgr["src"].pdst]
    BY <1>6
  <2> QED BY <1>4, <1>5, <2>1, <2>2 DEF Manager
<1>8. /\ mgr' \in [Node -> Manager]
      /\ SAck' = ack /\ Sends' = Append(Sends, op) /\ Recvs' = Recvs
  BY <1>4, <1>6, <1>7, Domains DEF SAck, Sends, Recvs
<1>9. TAck' = TAck /\ Known' = Known /\ NRecvs' = NRecvs /\ NMail' = NMail
  BY <1>2, <1>6, <1>8 DEF TAck, Known, NRecvs, NMail
<1>10. /\ NSends' = NSends + 1 /\ \A i \in 1 .. NSends : Sends'[i] = Sends[i]
       /\ Sends'[NSends + 1] = op
  BY <1>4, <1>8, AppendAt DEF NSends
<1>11. Matched' = Matched BY <1>1, <1>2, <1>10 DEF Matched
<1>12. Arms({SReady(s)})
  <2>1. UNION {spost[i] : i \in 1 .. j} \in SUBSET Event
    BY SMTT(30), <1>1, <1>2, Domains DEF TypeOK
  <2> QED BY <1>1, <1>3, <2>1, EventType DEF Arm, Arms, TypeOK
<1>13. Grows({SReady(s)})
  <2>1. SReady(s) \notin armed BY <1>1, <1>2, Domains DEF IInv, Armed
  <2>2. \A k \in Op : k <= sIssued => spost'[k] = spost[k] BY <1>1, <1>2, <1>3 DEF TypeOK
  <2>3. sIssued' \in Nat /\ sIssued <= sIssued' /\ tIssued <= tIssued' BY <1>1, <1>2
  <2> QED BY <1>1, <1>2, <1>3, <1>12, <2>1, <2>2, <2>3 DEF Grows
<1>14. TypeOK'
  <2>1. spost' \in [Op -> SUBSET Event] BY <1>1, <1>3, EventType DEF TypeOK
  <2>2. s \in 0 .. NOps BY <1>1, Domains
  <2> QED BY <1>1, <1>2, <1>3, <1>8, <1>12, <2>1, <2>2 DEF TypeOK, Arms
<1>15. SourceLists'
  <2>1. NRecvs = 0 BY DEF NRecvs
  <2>2. \A i \in 1 .. NSends + 1 :
          Sends'[i].op = Matched + i /\ Sends'[i].pre = {SReady(Matched + i)}
    <3>1. \A i \in 1 .. NSends + 1 : i = NSends + 1 \/ i \in 1 .. NSends BY <1>1
    <3>2. s = Matched + (NSends + 1) BY <1>1, <1>2
    <3>3. \A i \in 1 .. NSends :
            Sends[i].op = Matched + i /\ Sends[i].pre = {SReady(Matched + i)}
      BY DEF IInv, SourceLists
    <3> QED BY <1>4, <1>10, <3>1, <3>2, <3>3
  <2>3. /\ remote => ack = Matched + 1
        /\ ~remote => ack = 0
    <3>1. remote /\ sIssued = 0 => Matched = 0 /\ ack = 1 BY <1>1 DEF ack
    <3>2. ~remote \/ sIssued # 0 => ack = SAck BY DEF ack
    <3>3. /\ remote /\ sIssued > 0 => SAck = Matched + 1
          /\ ~remote \/ sIssued = 0 => SAck = 0
      BY DEF IInv, SourceLists
    <3> QED BY <1>1, <3>1, <3>2, <3>3
  <2>4. /\ NRecvs' = 0 /\ Matched' >= 0 /\ sIssued' > 0 /\ 1 .. 0 = {}
        /\ \A i \in 1 .. NSends' :
             Sends'[i].op = Matched' + i /\ Sends'[i].pre = {SReady(Matched' + i)}
    BY <1>1, <1>2, <1>9, <1>10, <1>11, <2>1, <2>2
  <2>5. /\ remote' => SAck' = Matched' + 1
        /\ ~remote' => SAck' = 0
    BY <1>2, <1>8, <1>11, <2>3
  <2> QED BY <2>4, <2>5 DEF SourceLists
<1>16. TargetLists'
  BY <1>1, <1>2, <1>6, <1>9 DEF IInv, TargetLists
<1>17. Messages'
  <2>1. remote /\ sIssued = 0 => TAck = 0 BY <1>1 DEF IInv, TargetLists
  <2> QED BY <1>1, <1>2, <1>9, <2>1 DEF IInv, Messages
<1>18. Pairing' BY <1>2, <1>3, <1>8, <1>9, <1>11 DEF IInv, Pairing
<1>19. NamesInOrder' BY <1>2, <1>3, <1>8, <1>9, <1>11 DEF IInv, NamesInOrder, InOrder
<1>20. Posts'
  <2>1. \A k \in Op : spost'[k] = IF k = s THEN {SUser(s)} ELSE spost[k]
    BY <1>1, <1>3 DEF TypeOK
  <2>2. \A k \in Op : k <= s => k = s \/ k <= sIssued BY <1>1, <1>2, Domains
  <2> QED BY <1>2, <2>1, <2>2 DEF IInv, Posts
<1>21. Armed'
  <2>1. \A k \in Op : SReady(k) = SReady(s) <=> k = s BY EventFields
  <2>2. \A k \in Op : k <= s <=> k = s \/ k <= sIssued BY <1>1, <1>2, Domains
  <2>3. armed' = armed \cup {SReady(s)} BY <1>12 DEF Arms
  <2> QED
    BY <1>2, <1>9, <1>11, <2>1, <2>2, <2>3, EventFields DEF IInv, Armed
<1>22. Waits'
  <2>1. NewWaits({SReady(s)}) BY EventFields DEF NewWaits
  <2> QED BY <1>13, <2>1, WaitsKept
<1> QED
  BY <1>13, <1>14, <1>15, <1>16, <1>17, <1>18, <1>19, <1>20, <1>21, <1>22, GrowsKeeps DEF IInv

\* A send that finds a receive takes the first one.
LEMMA SendPairs ==
  ASSUME IInv, NEW s \in Op, FromLocalSource(s), Recvs # <<>>
  PROVE  IInv'
<1> DEFINE t == Recvs[1].op
           pre == Recvs[1].pre
           ack == IF remote THEN s + 1 ELSE 0
           partner == IF remote THEN Ack(s) ELSE TUser(t)
           N == {SReady(s), CopyEv(s), partner}
<1>1. /\ TypeOK /\ sIssued \in Nat /\ tIssued \in Nat /\ NSends \in Nat /\ NRecvs \in Nat
      /\ NMail \in Nat /\ Matched \in Nat /\ Matched + NSends = sIssued /\ s \in Nat
  BY Counts, Domains
<1>2. /\ s = sIssued + 1 /\ sIssued' = s
      /\ remote' = remote /\ tIssued' = tIssued /\ tpost' = tpost /\ fired' = fired
      /\ net' \in [Node -> Seq(Name)] /\ Mail' = Mail
      /\ remote /\ sIssued = 0 => Acks' = <<[barrier |-> 1, inst |-> 0]>>
      /\ ~remote \/ sIssued > 0 => Acks' = Acks
  BY SendCommon
<1>3. /\ Recvs \in Seq(Pending) /\ NRecvs >= 1 /\ Head(Recvs) = Recvs[1]
      /\ Recvs[1] \in Pending /\ t \in Op /\ pre \in SUBSET Event
      /\ Tail(Recvs) \in Seq(Pending) /\ Len(Tail(Recvs)) = NRecvs - 1
      /\ \A i \in 1 .. NRecvs - 1 : Tail(Recvs)[i] = Recvs[i + 1]
  <2>1. Recvs \in Seq(Pending) BY <1>1, QueueType
  <2>2. Recvs[1] \in Pending BY <2>1, TailAt
  <2>3. t \in Op /\ pre \in SUBSET Event BY <2>2 DEF Pending
  <2> QED BY <2>1, <2>2, <2>3, TailAt DEF NRecvs
<1>4. NSends = 0 /\ s = Matched + 1 /\ Matched = sIssued
  BY <1>1, <1>2, <1>3 DEF IInv, SourceLists
<1>5. (IF NeedsAckBarrier(mgr[Src]) THEN 1 ELSE mgr[Src].ack) = IF remote THEN s ELSE 0
  <2>1. NeedsAckBarrier(mgr[Src]) <=> remote /\ sIssued = 0 BY SendCommon
  <2>2. mgr[Src].ack = SAck BY DEF Src, SAck
  <2>3. /\ remote /\ sIssued > 0 => SAck = Matched + 1
        /\ ~remote \/ sIssued = 0 => SAck = 0
    BY DEF IInv, SourceLists
  <2>4. CASE remote /\ sIssued = 0 BY <1>2, <2>1, <2>4
  <2>5. CASE remote /\ sIssued # 0
    <3>1. SAck = s BY <1>1, <1>4, <2>3, <2>5
    <3> QED BY <2>1, <2>2, <2>5, <3>1
  <2>6. CASE ~remote BY <2>1, <2>2, <2>3, <2>6
  <2> QED BY <2>4, <2>5, <2>6
<1> DEFINE a0 == IF NeedsAckBarrier(mgr[Src]) THEN 1 ELSE mgr[Src].ack
           Sr(j) == [e \in {SReady(s)} |-> UNION {spost[i] : i \in 1 .. j}]
           copy == IF remote THEN RemoteCopy(s, Head(mgr[Src].pdst).pre, a0)
                   ELSE LocalCopy(s, Head(mgr[Src].pdst).pre \cup SrcPrecondition(s),
                                  TUser(Head(mgr[Src].pdst).op))
<1>6. PICK j \in 0 .. s - 1 :
        /\ mgr' = [mgr EXCEPT ![Src].ack = IF remote THEN a0 + 1 ELSE a0,
                              ![Src].pdst = Tail(@)]
        /\ copyTo' = [copyTo EXCEPT ![s] = Head(mgr[Src].pdst).op]
        /\ spost' = [spost EXCEPT ![s] = {CopyEv(s)}]
        /\ Arm([e \in DOMAIN copy \cup DOMAIN Sr(j) |->
                  IF e \in DOMAIN copy THEN copy[e] ELSE Sr(j)[e]])
  <2>1. mgr[Src].pdst # <<>> BY DEF Src, Recvs
  <2> QED BY <2>1, Zenon DEF FromLocalSource
<1>7. /\ mgr[Src].pdst = Recvs /\ Src = "src" /\ Head(mgr[Src].pdst).op = t
      /\ Head(mgr[Src].pdst).pre = pre /\ (IF remote THEN a0 + 1 ELSE a0) = ack
  <2>1. mgr[Src].pdst = Recvs /\ Src = "src" BY DEF Src, Recvs
  <2>2. (IF remote THEN a0 + 1 ELSE a0) = ack
    <3>1. CASE remote BY <1>5, <3>1
    <3>2. CASE ~remote BY <1>5, <3>2
    <3> QED BY <3>1, <3>2
  <2> QED BY <1>3, <2>1, <2>2
<1>8. copy = [e \in {CopyEv(s), partner} |->
                IF e = partner THEN {CopyEv(s)} ELSE pre \cup {SReady(s)}]
  <2>1. CASE remote
    <3>1. a0 = s BY <1>5, <2>1
    <3> HIDE DEF a0
    <3> QED BY <1>7, <2>1, <3>1 DEF RemoteCopy, SrcPrecondition
  <2>2. CASE ~remote
    <3> HIDE DEF a0
    <3> QED BY <1>7, <2>2 DEF LocalCopy, SrcPrecondition
  <2> QED BY <2>1, <2>2
<1>9. copyTo' = [copyTo EXCEPT ![s] = t] BY <1>6, <1>7
<1>10. /\ mgr'["src"] = [mgr["src"] EXCEPT !.ack = ack, !.pdst = Tail(Recvs)]
       /\ mgr'["tgt"] = mgr["tgt"] /\ mgr' = [mgr EXCEPT !["src"] = mgr'["src"]]
  <2> HIDE DEF a0, ack
  <2>1. mgr' = [mgr EXCEPT !["src"].ack = ack, !["src"].pdst = Tail(@)] BY <1>6, <1>7
  <2> QED BY <1>1, <2>1, Domains DEF TypeOK, Recvs
<1>11. /\ SReady(s) \in Event /\ CopyEv(s) \in Event /\ partner \in Event
       /\ CopyEv(s) # partner /\ partner # SReady(s) /\ CopyEv(s) # SReady(s)
  <2>1. partner = Ack(s) \/ partner = TUser(t) OBVIOUS
  <2> HIDE DEF partner, t
  <2>2. t \in Op BY <1>3
  <2> QED BY <2>1, <2>2, EventsDiffer, EventType
<1> HIDE DEF a0, copy, partner, ack
<1>12. /\ Arms(N) /\ after'[CopyEv(s)] = pre \cup {SReady(s)}
       /\ after'[partner] = {CopyEv(s)}
  <2> DEFINE f == [e \in DOMAIN copy \cup DOMAIN Sr(j) |->
                     IF e \in DOMAIN copy THEN copy[e] ELSE Sr(j)[e]]
             P == pre \cup {SReady(s)}
             Q == UNION {spost[i] : i \in 1 .. j}
  <2>1. Q \in SUBSET Event
    <3>1. \A i \in 1 .. j : i \in Op BY <1>1, <1>2, Domains
    <3> QED BY <1>1, <3>1 DEF TypeOK
  <2>2. Arm(f) BY <1>6
  <2>3. Sr(j) = [e \in {SReady(s)} |-> Q] OBVIOUS
  <2>4. P \in SUBSET Event BY <1>3, <1>11
  <2> HIDE DEF Sr, Q, pre
  <2>5. DOMAIN copy = {CopyEv(s), partner} /\ DOMAIN Sr(j) = {SReady(s)} BY <1>8, <2>3
  <2>6. DOMAIN f = {SReady(s), CopyEv(s), partner} BY <2>5
  <2>7. f[CopyEv(s)] = P /\ f[partner] = {CopyEv(s)} /\ f[SReady(s)] = Q
    BY <1>8, <1>11, <2>3, <2>5
  <2> HIDE DEF f, P
  <2>8. Arms(DOMAIN f) /\ \A e \in DOMAIN f : after'[e] = f[e]
    <3>1. {CopyEv(s)} \in SUBSET Event BY <1>11
    <3>2. DOMAIN f \subseteq Event /\ \A e \in DOMAIN f : f[e] \in SUBSET Event
      BY <1>11, <2>1, <2>4, <2>6, <2>7, <3>1
    <3> QED BY <1>1, <2>2, <3>2, ArmArms
  <2> QED BY <2>6, <2>7, <2>8 DEF P
<1>13. /\ mgr' \in [Node -> Manager]
       /\ SAck' = ack /\ Sends' = Sends /\ Recvs' = Tail(Recvs)
  <2>1. mgr["src"] \in Manager /\ mgr \in [Node -> Manager] BY <1>1, QueueType DEF TypeOK
  <2>2. ack \in Nat BY <1>1 DEF ack
  <2>3. /\ mgr'["src"] \in Manager /\ mgr'["src"].ack = ack
        /\ mgr'["src"].psrc = mgr["src"].psrc /\ mgr'["src"].pdst = Tail(Recvs)
    BY <1>3, <1>10, <2>1, <2>2 DEF Manager
  <2> QED BY <1>10, <2>1, <2>3, Domains DEF SAck, Sends, Recvs
<1>14. /\ TAck' = TAck /\ Known' = Known /\ NMail' = NMail /\ NSends' = 0
       /\ NRecvs' = NRecvs - 1 /\ \A i \in 1 .. NRecvs - 1 : Recvs'[i] = Recvs[i + 1]
  BY <1>2, <1>3, <1>4, <1>10, <1>13 DEF TAck, Known, NRecvs, NMail, NSends
<1>15. Matched' = s BY <1>1, <1>2, <1>14 DEF Matched
<1>16. ~remote => t = s
  <2>1. ~remote => Recvs[1].op = Matched + 1
    BY <1>1, <1>3 DEF IInv, NamesInOrder, InOrder
  <2> QED BY <1>4, <2>1
<1>17. \A k \in Op : /\ copyTo'[k] = IF k = s THEN t ELSE copyTo[k]
                     /\ spost'[k] = IF k = s THEN {CopyEv(s)} ELSE spost[k]
  BY <1>1, <1>6, <1>9 DEF TypeOK
<1>18. Grows(N)
  <2>1. SReady(s) \notin armed /\ CopyEv(s) \notin armed
    BY <1>1, <1>2, <1>4, Domains DEF IInv, Armed
  <2>2. partner \notin armed
    <3>1. ~(s <= Matched) BY <1>1, <1>4
    <3>2. CASE remote BY <3>1, <3>2 DEF IInv, Armed, partner
    <3>3. CASE ~remote BY <1>16, <3>1, <3>3 DEF IInv, Armed, partner
    <3> QED BY <3>2, <3>3
  <2>3. sIssued' \in Nat /\ sIssued <= sIssued' /\ tIssued <= tIssued' BY <1>1, <1>2
  <2>4. \A k \in Op : k <= sIssued => k # s BY <1>1, <1>2
  <2> HIDE DEF t
  <2> QED BY <1>1, <1>2, <1>4, <1>12, <1>17, <2>1, <2>2, <2>3, <2>4 DEF Grows
<1>19. TypeOK'
  <2>1. spost' \in [Op -> SUBSET Event] BY <1>1, <1>6, EventType DEF TypeOK
  <2>2. s \in 0 .. NOps BY <1>1, Domains
  <2>3. t \in Op BY <1>3
  <2> HIDE DEF t
  <2>4. copyTo' \in [Op -> 0 .. NOps] BY <1>1, <1>9, <2>3 DEF TypeOK, Op
  <2> QED BY <1>1, <1>2, <1>12, <1>13, <2>1, <2>2, <2>4 DEF TypeOK, Arms
<1>20. SourceLists'
  <2>1. \A i \in 1 .. NRecvs' : /\ remote => Recvs'[i].pre = {Ready(Recvs'[i].op)}
                                /\ ~remote => Recvs'[i].pre = DstPrecondition(Recvs[i].op)'
    <3> SUFFICES ASSUME NEW i \in 1 .. NRecvs'
                 PROVE  /\ remote => Recvs'[i].pre = {Ready(Recvs'[i].op)}
                        /\ ~remote => Recvs'[i].pre = DstPrecondition(Recvs[i].op)'
      OBVIOUS
    <3>1. i + 1 \in 1 .. NRecvs /\ Recvs'[i] = Recvs[i + 1] BY <1>1, <1>14
    <3>2. /\ remote => Recvs[i + 1].pre = {Ready(Recvs[i + 1].op)}
          /\ ~remote => Recvs[i + 1].pre = DstPrecondition(Recvs[i + 1].op)
      BY <3>1 DEF IInv, SourceLists
    <3>3. DstPrecondition(Recvs[i].op)' = DstPrecondition(Recvs[i + 1].op)
      BY <1>2, <3>1 DEF DstPrecondition
    <3> QED BY <3>1, <3>2, <3>3
  <2>2. /\ remote => ack = s + 1
        /\ ~remote => ack = 0
    BY DEF ack
  <2>3. /\ Matched' >= 0 /\ sIssued' > 0 /\ 1 .. NSends' = {}
        /\ remote' => SAck' = Matched' + 1
        /\ ~remote' => SAck' = 0
    BY <1>1, <1>2, <1>13, <1>14, <1>15, <2>2
  <2> QED BY <1>2, <1>14, <2>1, <2>3 DEF SourceLists
<1>21. TargetLists'
  BY <1>1, <1>2, <1>10, <1>14 DEF IInv, TargetLists
<1>22. Messages'
  <2>1. remote /\ sIssued = 0 => TAck = 0 BY <1>1 DEF IInv, TargetLists
  <2>2. TAck' = TAck /\ NMail' = NMail BY <1>14
  <2>3. /\ ~remote' => NMail' = 0
        /\ \A i \in 1 .. NMail' : Mail'[i].inst # 0 /\ Mail'[i].barrier = Mail'[i].inst
    BY <1>2, <2>2 DEF IInv, Messages
  <2>4. /\ remote' /\ TAck' = 0 => Acks' = <<[barrier |-> 1, inst |-> 0]>>
        /\ ~remote' \/ TAck' # 0 => Acks' = <<>>
    BY <1>1, <1>2, <2>1, <2>2 DEF IInv, Messages
  <2>5. sIssued' > 0 BY <1>1, <1>2
  <2> QED BY <2>3, <2>4, <2>5 DEF Messages
<1>23. Pairing'
  <2>1. /\ \A k \in Op : copyTo[k] # t
        /\ \A i \in 1 .. NMail : Mail[i].inst # t
        /\ \A i \in 1 .. NRecvs : Recvs[i].op = t => i = 1
        /\ t <= tIssued
    BY <1>1, <1>3 DEF IInv, Pairing
  <2>2. \A i \in 1 .. NRecvs' : i + 1 \in 1 .. NRecvs /\ Recvs'[i].op = Recvs[i + 1].op
    BY <1>1, <1>14
  <2>3. \A i \in 1 .. NRecvs' : Recvs'[i].op # t BY <1>1, <1>14, <2>1, <2>2
  <2>4. t # 0 /\ t \in Op BY <1>3, Domains
  <2>5. \A k \in Op : k <= s <=> k = s \/ k <= Matched BY <1>1, <1>4, Domains
  <2> HIDE DEF t
  <2>6. \A k \in Op : /\ (copyTo'[k] # 0) <=> (k <= Matched')
                      /\ copyTo'[k] <= tIssued'
                      /\ \A i \in Op : copyTo'[k] # 0 /\ copyTo'[k] = copyTo'[i] => i = k
    BY <1>2, <1>15, <1>17, <2>1, <2>4, <2>5 DEF IInv, Pairing
  <2>7. \A k \in Op : /\ \A i \in 1 .. NRecvs' : copyTo'[k] # Recvs'[i].op
                      /\ \A i \in 1 .. NMail' : copyTo'[k] # Mail'[i].inst
    BY <1>2, <1>14, <1>17, <2>1, <2>2, <2>3 DEF IInv, Pairing
  <2>8. \A i \in 1 .. NRecvs' :
          /\ Recvs'[i].op <= tIssued'
          /\ \A l \in 1 .. NRecvs' : Recvs'[l].op = Recvs'[i].op => l = i
          /\ \A l \in 1 .. NMail' : Mail'[l].inst # Recvs'[i].op
    <3> SUFFICES ASSUME NEW i \in 1 .. NRecvs'
                 PROVE  /\ Recvs'[i].op <= tIssued'
                        /\ \A l \in 1 .. NRecvs' : Recvs'[l].op = Recvs'[i].op => l = i
                        /\ \A l \in 1 .. NMail' : Mail'[l].inst # Recvs'[i].op
      OBVIOUS
    <3>1. \A l \in 1 .. NRecvs' : Recvs'[l].op = Recvs'[i].op => l + 1 = i + 1
      BY <2>2 DEF IInv, Pairing
    <3>2. \A l \in 1 .. NRecvs' : l \in Int BY <1>1, <1>14
    <3>3. /\ Recvs[i + 1].op <= tIssued
          /\ \A l \in 1 .. NMail : Mail[l].inst # Recvs[i + 1].op
      BY <2>2 DEF IInv, Pairing
    <3> QED BY <1>2, <1>14, <2>2, <3>1, <3>2, <3>3
  <2> QED BY <1>2, <1>14, <2>6, <2>7, <2>8 DEF IInv, Pairing
<1>24. NamesInOrder'
  <2> SUFFICES ASSUME InOrder PROVE NamesInOrder' BY <1>2 DEF NamesInOrder, InOrder
  <2>1. /\ Matched + NRecvs + NMail = tIssued
        /\ \A k \in Op : k <= Matched => copyTo[k] = k
        /\ \A i \in 1 .. NRecvs : Recvs[i].op = Matched + i
        /\ \A i \in 1 .. NMail : Mail[i].inst = Matched + NRecvs + i
    BY DEF IInv, NamesInOrder
  <2>2. t = s BY <1>1, <1>3, <1>4, <2>1
  <2>3. \A k \in Op : k <= s <=> k = s \/ k <= Matched BY <1>1, <1>4, Domains
  <2> HIDE DEF t
  <2>4. Matched' + NRecvs' + NMail' = tIssued' BY <1>1, <1>2, <1>4, <1>14, <1>15, <2>1
  <2>5. \A k \in Op : k <= Matched' => copyTo'[k] = k BY <1>15, <1>17, <2>1, <2>2, <2>3
  <2>6. \A i \in 1 .. NRecvs' : Recvs'[i].op = Matched' + i
    <3>1. \A i \in 1 .. NRecvs' : i + 1 \in 1 .. NRecvs /\ Recvs'[i].op = Recvs[i + 1].op
      BY <1>1, <1>14
    <3> QED BY <1>1, <1>4, <1>14, <1>15, <2>1, <3>1
  <2>7. \A i \in 1 .. NMail' : Mail'[i].inst = Matched' + NRecvs' + i
    BY <1>1, <1>2, <1>4, <1>14, <1>15, <2>1
  <2> QED BY <2>4, <2>5, <2>6, <2>7 DEF NamesInOrder
<1>25. Posts'
  <2>1. \A k \in Op : k <= s => k = s \/ k <= sIssued BY <1>1, <1>2, Domains
  <2> QED BY <1>2, <1>17, <2>1 DEF IInv, Posts
<1>26. Armed'
  <2>1. \A k \in Op : /\ k <= s <=> k = s \/ k <= sIssued
                      /\ k <= s <=> k = s \/ k <= Matched
    BY <1>1, <1>2, <1>4, Domains
  <2>2. armed' = armed \cup {SReady(s), CopyEv(s), partner} BY <1>12 DEF Arms
  <2>3. CASE remote
    <3>1. partner = Ack(s) BY <2>3 DEF partner
    <3> QED BY <1>2, <1>14, <1>15, <2>1, <2>2, <2>3, <3>1, EventFields DEF IInv, Armed
  <2>4. CASE ~remote
    <3>1. partner = TUser(s) BY <1>16, <2>4 DEF partner
    <3> QED BY <1>2, <1>14, <1>15, <2>1, <2>2, <2>4, <3>1, EventFields DEF IInv, Armed
  <2> QED BY <2>3, <2>4
<1>27. Waits'
  <2>1. CASE remote
    <3>1. partner = Ack(s) /\ pre = {Ready(t)} BY <1>1, <1>3, <2>1 DEF partner, IInv, SourceLists
    <3>2. copyTo'[s] = t BY <1>17
    <3> HIDE DEF t, pre
    <3>3. NewWaits({SReady(s), CopyEv(s), Ack(s)})
      BY <1>12, <2>1, <3>1, <3>2, EventFields DEF NewWaits
    <3> QED BY <1>18, <3>1, <3>3, WaitsKept
  <2>2. CASE ~remote
    <3>1. partner = TUser(s) /\ pre = DstPrecondition(t)
      BY <1>1, <1>3, <1>16, <2>2 DEF partner, IInv, SourceLists
    <3>2. DstPrecondition(s)' = pre BY <1>2, <1>16, <2>2, <3>1 DEF DstPrecondition
    <3> HIDE DEF t, pre
    <3>3. NewWaits({SReady(s), CopyEv(s), TUser(s)})
      BY <1>12, <2>2, <3>1, <3>2, EventFields DEF NewWaits
    <3> QED BY <1>18, <3>1, <3>3, WaitsKept
  <2> QED BY <2>1, <2>2
<1> QED
  BY <1>18, <1>19, <1>20, <1>21, <1>22, <1>23, <1>24, <1>25, <1>26, <1>27, GrowsKeeps DEF IInv

-----------------------------------------------------------------------------
(***************************************************************************)
(* RendezvousReshardToLocalTarget.                                         *)
(***************************************************************************)
\* A receive that finds a send in its own manager takes the first one, which is its own.
LEMMA ReceivePairs ==
  ASSUME IInv, NEW t \in Op, ToLocalTarget(t), mgr[Tgt].psrc # <<>>
  PROVE  IInv'
<1> DEFINE N == {TReady(t), CopyEv(t), SUser(t)}
<1>1. /\ TypeOK /\ sIssued \in Nat /\ tIssued \in Nat /\ NSends \in Nat /\ NRecvs \in Nat
      /\ NMail \in Nat /\ Matched \in Nat /\ Matched + NSends = sIssued /\ t \in Nat
      /\ sIssued <= NOps
  BY Counts, Domains
<1>2. t = tIssued + 1 /\ tIssued' = t /\ UNCHANGED <<remote, sIssued, spost, fired>>
  BY DEF ToLocalTarget
<1>3. ~remote /\ mgr[Tgt].psrc = Sends /\ Tgt = "src" /\ Sends # <<>>
  BY DEF Tgt, Sends, IInv, TargetLists
<1>4. /\ Sends \in Seq(Pending) /\ NSends >= 1 /\ Head(Sends) = Sends[1]
      /\ Tail(Sends) \in Seq(Pending) /\ Len(Tail(Sends)) = NSends - 1
      /\ \A i \in 1 .. NSends - 1 : Tail(Sends)[i] = Sends[i + 1]
  <2>1. Sends \in Seq(Pending) BY <1>1, QueueType
  <2> QED BY <1>3, <2>1, TailAt DEF NSends
<1>5. NRecvs = 0 /\ NMail = 0 /\ t = Matched + 1 /\ Matched = tIssued
  <2>1. NRecvs = 0 /\ NMail = 0 BY <1>1, <1>3, <1>4 DEF IInv, SourceLists, Messages
  <2>2. Matched + NRecvs + NMail = tIssued BY <1>3 DEF IInv, NamesInOrder, InOrder
  <2> QED BY <1>1, <1>2, <2>1, <2>2
<1>6. Sends[1].op = t /\ Sends[1].pre = {SReady(t)}
  <2>1. 1 \in 1 .. NSends BY <1>1, <1>4
  <2> QED BY <1>5, <2>1 DEF IInv, SourceLists
<1> DEFINE op == Head(mgr[Tgt].psrc)
           copy == LocalCopy(op.op, op.pre \cup DstPrecondition(t), SUser(op.op))
           tr == [e \in {TReady(t)} |-> {}]
<1>7. /\ copyTo' = [copyTo EXCEPT ![op.op] = t]
      /\ Arm([e \in DOMAIN copy \cup DOMAIN tr |->
                IF e \in DOMAIN copy THEN copy[e] ELSE tr[e]])
      /\ tpost' = [tpost EXCEPT ![t] = {CopyEv(op.op)}]
      /\ mgr' = [mgr EXCEPT ![Tgt].psrc = Tail(@)]
      /\ net' = net
  BY Zenon DEF ToLocalTarget
<1>8. op.op = t /\ op.pre = {SReady(t)} BY <1>3, <1>4, <1>6
<1>9. copy = [e \in {CopyEv(t), SUser(t)} |->
                IF e = SUser(t) THEN {CopyEv(t)} ELSE {SReady(t)} \cup DstPrecondition(t)]
  BY <1>8 DEF LocalCopy
<1> HIDE DEF op
<1>10. copyTo' = [copyTo EXCEPT ![t] = t] /\ tpost' = [tpost EXCEPT ![t] = {CopyEv(t)}]
  BY <1>7, <1>8
<1>11. /\ mgr' \in [Node -> Manager] /\ mgr'["tgt"] = mgr["tgt"]
       /\ SAck' = SAck /\ Sends' = Tail(Sends) /\ Recvs' = Recvs
  <2>1. mgr["src"] \in Manager /\ mgr \in [Node -> Manager] BY <1>1, QueueType DEF TypeOK
  <2>2. /\ mgr'["src"] = [mgr["src"] EXCEPT !.psrc = Tail(Sends)] /\ mgr'["tgt"] = mgr["tgt"]
        /\ mgr' = [mgr EXCEPT !["src"] = mgr'["src"]]
    BY <1>3, <1>7, <2>1, Domains DEF Sends
  <2>3. /\ mgr'["src"] \in Manager /\ mgr'["src"].ack = mgr["src"].ack
        /\ mgr'["src"].psrc = Tail(Sends) /\ mgr'["src"].pdst = mgr["src"].pdst
    BY <1>4, <2>1, <2>2 DEF Manager
  <2> QED BY <2>1, <2>2, <2>3, Domains DEF SAck, Sends, Recvs
<1>12. /\ TAck' = TAck /\ Known' = Known /\ NMail' = 0 /\ NRecvs' = 0 /\ Mail' = Mail
       /\ Acks' = Acks /\ NSends' = NSends - 1
       /\ \A i \in 1 .. NSends - 1 : Sends'[i] = Sends[i + 1]
  BY <1>4, <1>5, <1>7, <1>11 DEF TAck, Known, NRecvs, NMail, NSends, Mail, Acks
<1>13. Matched' = t BY <1>1, <1>2, <1>5, <1>12 DEF Matched
<1>14. /\ TReady(t) \in Event /\ CopyEv(t) \in Event /\ SUser(t) \in Event
       /\ CopyEv(t) # SUser(t) /\ TReady(t) # SUser(t) /\ TReady(t) # CopyEv(t)
       /\ DstPrecondition(t) \in SUBSET Event /\ SReady(t) \in Event
  BY <1>1, EventType, EventsDiffer, DstPreconditionType
<1>15. /\ Arms(N) /\ after'[CopyEv(t)] = {SReady(t)} \cup DstPrecondition(t)
       /\ after'[SUser(t)] = {CopyEv(t)}
  <2> DEFINE f == [e \in DOMAIN copy \cup DOMAIN tr |->
                     IF e \in DOMAIN copy THEN copy[e] ELSE tr[e]]
             P == {SReady(t)} \cup DstPrecondition(t)
  <2>1. Arm(f) BY <1>7
  <2>2. P \in SUBSET Event BY <1>14
  <2> HIDE DEF copy, P
  <2>3. copy = [e \in {CopyEv(t), SUser(t)} |-> IF e = SUser(t) THEN {CopyEv(t)} ELSE P]
    BY <1>9 DEF P
  <2>4. DOMAIN copy = {CopyEv(t), SUser(t)} BY <2>3
  <2>5. DOMAIN f = N BY <2>4
  <2>6. f[CopyEv(t)] = P /\ f[SUser(t)] = {CopyEv(t)} /\ f[TReady(t)] = {}
    BY <1>14, <2>3, <2>4
  <2> HIDE DEF f
  <2>7. DOMAIN f \subseteq Event /\ \A e \in DOMAIN f : f[e] \in SUBSET Event
    <3>1. {CopyEv(t)} \in SUBSET Event BY <1>14
    <3> QED BY <1>14, <2>2, <2>5, <2>6, <3>1
  <2>8. Arms(DOMAIN f) /\ \A e \in DOMAIN f : after'[e] = f[e]
    BY <1>1, <2>1, <2>7, ArmArms
  <2> QED BY <2>5, <2>6, <2>8 DEF P
<1> HIDE DEF copy
<1>16. \A k \in Op : /\ copyTo'[k] = IF k = t THEN t ELSE copyTo[k]
                     /\ tpost'[k] = IF k = t THEN {CopyEv(t)} ELSE tpost[k]
  BY <1>1, <1>10 DEF TypeOK
<1>17. \A k \in Op : k <= t <=> k = t \/ k <= tIssued BY <1>1, <1>2, Domains
<1>18. Grows(N)
  <2>1. ~(t <= tIssued) /\ ~(t <= Matched) BY <1>1, <1>2, <1>5
  <2>2. TReady(t) \notin armed /\ CopyEv(t) \notin armed /\ SUser(t) \notin armed
    BY <2>1 DEF IInv, Armed
  <2>3. tIssued' \in Nat /\ sIssued <= sIssued' /\ tIssued <= tIssued' BY <1>1, <1>2
  <2>4. \A k \in Op : k <= tIssued => k # t BY <1>1, <1>2
  <2> QED BY <1>1, <1>2, <1>5, <1>15, <1>16, <2>2, <2>3, <2>4 DEF Grows
<1>19. TypeOK'
  <2>1. tpost' \in [Op -> SUBSET Event] BY <1>1, <1>10, EventType DEF TypeOK
  <2>2. t \in 0 .. NOps BY <1>1, Domains
  <2>3. copyTo' \in [Op -> 0 .. NOps] BY <1>1, <1>10, <2>2 DEF TypeOK
  <2> QED BY <1>1, <1>2, <1>7, <1>11, <1>15, <2>1, <2>2, <2>3 DEF TypeOK, Arms
<1>20. SourceLists'
  <2>1. \A i \in 1 .. NSends' : Sends'[i].op = t + i /\ Sends'[i].pre = {SReady(t + i)}
    <3> SUFFICES ASSUME NEW i \in 1 .. NSends'
                 PROVE  Sends'[i].op = t + i /\ Sends'[i].pre = {SReady(t + i)}
      OBVIOUS
    <3>1. NSends \in Nat /\ NSends' = NSends - 1 BY <1>1, <1>12
    <3>2. i \in 1 .. NSends - 1 BY <3>1
    <3>3. i + 1 \in 1 .. NSends BY <3>1, <3>2
    <3>4. Sends'[i] = Sends[i + 1] BY <1>12, <3>2
    <3>5. t + i = Matched + (i + 1) BY <1>1, <1>5, <3>2
    <3> QED BY <3>3, <3>4, <3>5 DEF IInv, SourceLists
  <2>2. ~remote' /\ SAck' = 0 BY <1>2, <1>3, <1>11 DEF IInv, SourceLists
  <2>3. Matched' >= 0 /\ 1 .. NRecvs' = {} BY <1>1, <1>12, <1>13
  <2> QED BY <1>12, <1>13, <2>1, <2>2, <2>3 DEF SourceLists
<1>21. TargetLists' BY <1>2, <1>3, <1>11, <1>12 DEF IInv, TargetLists
<1>22. Messages'
  <2>1. ~remote' /\ NMail' = 0 /\ 1 .. 0 = {} BY <1>2, <1>3, <1>12
  <2>2. Acks' = <<>> BY <1>3, <1>12 DEF IInv, Messages
  <2> QED BY <2>1, <2>2 DEF Messages
<1>23. NamesInOrder'
  <2>1. \A k \in Op : k <= Matched => copyTo[k] = k
    BY <1>3 DEF IInv, NamesInOrder, InOrder
  <2>2. \A k \in Op : k <= Matched' => copyTo'[k] = k BY <1>5, <1>13, <1>16, <1>17, <2>1
  <2>3. Matched' + NRecvs' + NMail' = tIssued' /\ 1 .. 0 = {} BY <1>1, <1>2, <1>12, <1>13
  <2> QED BY <1>12, <2>2, <2>3 DEF NamesInOrder
<1>24. Pairing'
  <2>1. /\ \A k \in Op : (copyTo[k] # 0) <=> (k <= tIssued)
        /\ \A k \in Op : copyTo[k] <= tIssued
        /\ \A k \in Op : k <= tIssued => copyTo[k] = k
    BY <1>3, <1>5 DEF IInv, Pairing, NamesInOrder, InOrder
  <2>2. \A k \in Op : copyTo[k] <= t /\ copyTo[k] # t /\ t # 0
    <3> SUFFICES ASSUME NEW k \in Op PROVE copyTo[k] <= t /\ copyTo[k] # t /\ t # 0
      OBVIOUS
    <3>1. copyTo[k] \in Int BY <1>1, Domains DEF TypeOK
    <3>2. copyTo[k] <= tIssued BY <2>1
    <3> QED BY <1>1, <1>2, <3>1, <3>2
  <2>3. \A k \in Op : /\ (copyTo'[k] # 0) <=> (k <= t)
                      /\ copyTo'[k] <= t
                      /\ \A i \in Op : copyTo'[k] # 0 /\ copyTo'[k] = copyTo'[i] => i = k
    <3>1. \A k, i \in Op : copyTo[k] # 0 /\ copyTo[k] = copyTo[i] => i = k
      BY DEF IInv, Pairing
    <3>2. t <= t BY <1>1
    <3> QED BY <1>16, <1>17, <2>1, <2>2, <3>1, <3>2
  <2>4. 1 .. NRecvs' = {} /\ 1 .. NMail' = {} BY <1>12
  <2> QED BY <1>2, <1>13, <2>3, <2>4 DEF Pairing
<1>25. Posts' BY <1>2, <1>3, <1>16, <1>17 DEF IInv, Posts
<1>26. Armed'
  <2>1. armed' = armed \cup {TReady(t), CopyEv(t), SUser(t)} BY <1>15 DEF Arms
  <2> QED BY <1>2, <1>3, <1>5, <1>12, <1>13, <1>17, <2>1, EventFields DEF IInv, Armed
<1>27. Waits'
  <2>1. DstPrecondition(t)' = DstPrecondition(t)
    <3>1. t <= tIssued + 1 BY <1>1, <1>2
    <3> QED BY <1>18, <3>1, GrowsKeeps
  <2>2. NewWaits({TReady(t), CopyEv(t), SUser(t)})
    BY <1>3, <1>15, <2>1, EventFields DEF NewWaits
  <2> QED BY <1>18, <2>2, WaitsKept
<1> QED
  BY <1>18, <1>19, <1>20, <1>21, <1>22, <1>23, <1>24, <1>25, <1>26, <1>27, GrowsKeeps DEF IInv

\* A receive that finds no send in its own manager waits there.
LEMMA ReceiveWaits ==
  ASSUME IInv, NEW t \in Op, ToLocalTarget(t), mgr[Tgt].psrc = <<>>, ~remote
  PROVE  IInv'
<1> DEFINE op == PendingOp(t, DstPrecondition(t))
<1>1. /\ TypeOK /\ sIssued \in Nat /\ tIssued \in Nat /\ NSends \in Nat /\ NRecvs \in Nat
      /\ NMail \in Nat /\ Matched \in Nat /\ Matched + NSends = sIssued /\ t \in Nat
  BY Counts, Domains
<1>2. t = tIssued + 1 /\ tIssued' = t /\ UNCHANGED <<remote, sIssued, spost, fired>>
  BY DEF ToLocalTarget
<1>3. Tgt = "src" /\ Sends = <<>> /\ mgr["src"].ack = 0
  BY DEF Tgt, Sends, IInv, SourceLists, SAck
<1>4. /\ Arm([e \in {TReady(t)} |-> {}])
      /\ mgr' = [mgr EXCEPT !["src"] = [mgr["src"] EXCEPT !.pdst = Append(@, op)]]
      /\ tpost' = [tpost EXCEPT ![t] = {TUser(t)}]
      /\ UNCHANGED <<net, copyTo>>
  BY <1>3 DEF ToLocalTarget, NoBarrier
<1>5. /\ op \in Pending /\ op.op = t /\ op.pre = DstPrecondition(t)
      /\ mgr \in [Node -> Manager] /\ mgr["src"] \in Manager /\ Recvs \in Seq(Pending)
  BY <1>1, DstPreconditionType, QueueType DEF PendingOp, Pending, TypeOK
<1> HIDE DEF op
<1>6. /\ Append(Recvs, op) \in Seq(Pending) /\ Len(Append(Recvs, op)) = NRecvs + 1
      /\ \A i \in 1 .. NRecvs : Append(Recvs, op)[i] = Recvs[i]
      /\ Append(Recvs, op)[NRecvs + 1] = op
  BY <1>5, AppendAt DEF NRecvs
<1>7. /\ mgr' \in [Node -> Manager] /\ mgr'["tgt"] = mgr["tgt"]
      /\ SAck' = SAck /\ Sends' = Sends /\ Recvs' = Append(Recvs, op)
  <2>1. /\ mgr'["src"] = [mgr["src"] EXCEPT !.pdst = Append(Recvs, op)]
        /\ mgr'["tgt"] = mgr["tgt"] /\ mgr' = [mgr EXCEPT !["src"] = mgr'["src"]]
    BY <1>4, <1>5, Domains DEF Recvs
  <2>2. /\ mgr'["src"] \in Manager /\ mgr'["src"].ack = mgr["src"].ack
        /\ mgr'["src"].psrc = mgr["src"].psrc /\ mgr'["src"].pdst = Append(Recvs, op)
    BY <1>5, <1>6, <2>1 DEF Manager
  <2> QED BY <1>5, <2>1, <2>2, Domains DEF SAck, Sends, Recvs
<1>8. /\ TAck' = TAck /\ Known' = Known /\ NMail' = NMail /\ Mail' = Mail /\ Acks' = Acks
      /\ NSends' = NSends /\ NRecvs' = NRecvs + 1 /\ Recvs'[NRecvs + 1] = op
      /\ \A i \in 1 .. NRecvs : Recvs'[i] = Recvs[i]
  BY <1>4, <1>6, <1>7 DEF TAck, Known, NRecvs, NMail, NSends, Mail, Acks
<1>9. /\ NSends = 0 /\ NMail = 0 /\ Matched' = Matched /\ Matched + NRecvs = tIssued
      /\ Matched <= tIssued /\ t = Matched + (NRecvs + 1)
  <2>1. NSends = 0 BY <1>3 DEF NSends
  <2>2. NMail = 0 BY DEF IInv, Messages
  <2>3. Matched' = Matched BY <1>2, <1>8 DEF Matched
  <2>4. Matched + NRecvs + NMail = tIssued BY DEF IInv, NamesInOrder, InOrder
  <2> QED BY <1>1, <1>2, <2>1, <2>2, <2>3, <2>4
<1>10. \A k \in Op : tpost'[k] = IF k = t THEN {TUser(t)} ELSE tpost[k]
  BY <1>1, <1>4 DEF TypeOK
<1>11. \A k \in Op : k <= t <=> k = t \/ k <= tIssued BY <1>1, <1>2, Domains
<1>12. Arms({TReady(t)})
  BY <1>1, <1>4, EventType DEF Arm, Arms, TypeOK
<1>13. Grows({TReady(t)})
  <2>1. ~(t <= tIssued) BY <1>1, <1>2
  <2>2. TReady(t) \notin armed BY <2>1 DEF IInv, Armed
  <2>3. tIssued' \in Nat /\ sIssued <= sIssued' /\ tIssued <= tIssued' BY <1>1, <1>2
  <2>4. \A k \in Op : k <= tIssued => k # t BY <1>1, <1>2
  <2> QED BY <1>1, <1>2, <1>4, <1>10, <1>12, <2>2, <2>3, <2>4 DEF Grows
<1>14. TypeOK'
  <2>1. tpost' \in [Op -> SUBSET Event] BY <1>1, <1>4, EventType DEF TypeOK
  <2>2. t \in 0 .. NOps BY <1>1, Domains
  <2> QED BY <1>1, <1>2, <1>4, <1>7, <1>12, <2>1, <2>2 DEF TypeOK, Arms
<1>15. \A i \in 1 .. NRecvs' : i = NRecvs + 1 \/ i \in 1 .. NRecvs BY <1>1, <1>8
<1>16. SourceLists'
  <2>1. \A i \in 1 .. NRecvs' : Recvs'[i].pre = DstPrecondition(Recvs[i].op)'
    <3> SUFFICES ASSUME NEW i \in 1 .. NRecvs'
                 PROVE  Recvs'[i].pre = DstPrecondition(Recvs[i].op)'
      OBVIOUS
    <3>1. \A k \in Op : k <= t =>
            DstPrecondition(k) = {TReady(k)} \cup (IF k = 1 THEN {} ELSE tpost'[k - 1])
      <4>1. \A k \in Op : k <= tIssued + 1 => DstPrecondition(k)' = DstPrecondition(k)
        BY <1>13, GrowsKeeps
      <4> QED BY <1>2, <4>1 DEF DstPrecondition
    <3>2. DstPrecondition(Recvs[i].op)' =
            {TReady(Recvs'[i].op)} \cup (IF Recvs'[i].op = 1 THEN {} ELSE tpost'[Recvs'[i].op - 1])
      BY DEF DstPrecondition
    <3>3. CASE i = NRecvs + 1
      <4>1. t <= t BY <1>1
      <4> QED BY <1>5, <1>8, <3>1, <3>2, <3>3, <4>1
    <3>4. CASE i \in 1 .. NRecvs
      <4>1. Recvs'[i] = Recvs[i] /\ Recvs[i].op \in Op /\ Recvs[i].op <= t
        <5>1. Recvs[i].op \in Op BY <1>1, <3>4, QueueType
        <5>2. Recvs[i].op <= tIssued BY <3>4 DEF IInv, Pairing
        <5> QED BY <1>8, <1>11, <3>4, <5>1, <5>2
      <4>2. Recvs[i].pre = DstPrecondition(Recvs[i].op) BY <3>4 DEF IInv, SourceLists
      <4> QED BY <3>1, <3>2, <4>1, <4>2
    <3> QED BY <1>15, <3>3, <3>4
  <2>2. ~remote' /\ SAck' = 0 BY <1>2, <1>7 DEF IInv, SourceLists
  <2>3. Matched' >= 0 /\ NSends' = 0 /\ 1 .. NSends' = {} BY <1>1, <1>8, <1>9
  <2> QED BY <2>1, <2>2, <2>3 DEF SourceLists
<1>17. TargetLists' BY <1>2, <1>7, <1>8 DEF IInv, TargetLists
<1>18. Messages' BY <1>2, <1>8 DEF IInv, Messages
<1>19. NamesInOrder'
  <2>1. /\ \A k \in Op : k <= Matched => copyTo[k] = k
        /\ \A i \in 1 .. NRecvs : Recvs[i].op = Matched + i
    BY DEF IInv, NamesInOrder, InOrder
  <2>2. \A i \in 1 .. NRecvs' : Recvs'[i].op = Matched' + i
    BY <1>5, <1>8, <1>9, <1>15, <2>1
  <2>3. Matched' + NRecvs' + NMail' = tIssued' /\ 1 .. NMail' = {} BY <1>1, <1>2, <1>8, <1>9
  <2> QED BY <1>4, <1>9, <2>1, <2>2, <2>3 DEF NamesInOrder
<1>20. Pairing'
  <2>1. \A k \in Op : copyTo[k] <= t /\ copyTo[k] # t
    <3> SUFFICES ASSUME NEW k \in Op PROVE copyTo[k] <= t /\ copyTo[k] # t
      OBVIOUS
    <3>1. copyTo[k] \in Int BY <1>1, Domains DEF TypeOK
    <3>2. copyTo[k] <= tIssued BY DEF IInv, Pairing
    <3> QED BY <1>1, <1>2, <3>1, <3>2
  <2>2. \A i \in 1 .. NRecvs : Recvs[i].op <= t /\ Recvs[i].op # t
    <3> SUFFICES ASSUME NEW i \in 1 .. NRecvs PROVE Recvs[i].op <= t /\ Recvs[i].op # t
      OBVIOUS
    <3>1. Recvs[i].op \in Nat BY <1>1, QueueType, Domains
    <3>2. Recvs[i].op <= tIssued BY DEF IInv, Pairing
    <3> QED BY <1>1, <1>2, <3>1, <3>2
  <2>3. \A k \in Op : \A i \in 1 .. NRecvs' : copyTo[k] # Recvs'[i].op
    BY <1>5, <1>8, <1>15, <2>1 DEF IInv, Pairing
  <2>4. \A j \in 1 .. NRecvs' :
          /\ Recvs'[j].op <= t
          /\ \A i \in 1 .. NRecvs' : Recvs'[i].op = Recvs'[j].op => i = j
    <3>1. t <= t BY <1>1
    <3>2. \A i, j \in 1 .. NRecvs : Recvs[i].op = Recvs[j].op => i = j BY DEF IInv, Pairing
    <3> QED BY <1>5, <1>8, <1>15, <2>2, <3>1, <3>2
  <2>5. 1 .. NMail' = {} BY <1>8, <1>9
  <2> QED BY <1>2, <1>4, <1>9, <2>1, <2>3, <2>4, <2>5 DEF IInv, Pairing
<1>21. Posts' BY <1>2, <1>10, <1>11 DEF IInv, Posts
<1>22. Armed'
  <2>1. armed' = armed \cup {TReady(t)} BY <1>12 DEF Arms
  <2> QED BY <1>2, <1>8, <1>9, <1>11, <2>1, EventFields DEF IInv, Armed
<1>23. Waits'
  <2>1. NewWaits({TReady(t)}) BY EventFields DEF NewWaits
  <2> QED BY <1>13, <2>1, WaitsKept
<1> QED
  BY <1>13, <1>14, <1>16, <1>17, <1>18, <1>19, <1>20, <1>21, <1>22, <1>23, GrowsKeeps DEF IInv

\* A receive from a remote source sends its name there.  Its own manager keeps it as long
\* as the ack barrier is not known, and otherwise returns the next generation.
LEMMA ReceiveRemote ==
  ASSUME IInv, NEW t \in Op, ToLocalTarget(t), remote
  PROVE  IInv'
<1> DEFINE mt == mgr["tgt"]
           op == PendingOp(t, DstPrecondition(t))
           msg == [barrier |-> t, inst |-> t]
           post == IF TAck = 0 THEN {TUser(t)} ELSE {Ack(t)}
<1>1. /\ TypeOK /\ sIssued \in Nat /\ tIssued \in Nat /\ NSends \in Nat /\ NRecvs \in Nat
      /\ NMail \in Nat /\ Matched \in Nat /\ Matched + NSends = sIssued /\ t \in Nat
  BY Counts, Domains
<1>2. t = tIssued + 1 /\ tIssued' = t /\ UNCHANGED <<remote, sIssued, spost, fired>>
  BY DEF ToLocalTarget
<1>3. /\ Tgt = "tgt" /\ mt.psrc = <<>> /\ mt.ready = tIssued /\ mt.ack = TAck
      /\ TAck # 0 => TAck = t
  BY <1>2 DEF Tgt, IInv, TargetLists, TAck
<1>4. mgr[Tgt].psrc = <<>> /\ mgr[Tgt].ready + 1 = t BY <1>2, <1>3
<1>5. /\ net' = [net EXCEPT !["src"] = Append(@, msg)]
      /\ Arm([e \in {TReady(t), Ready(t)} |-> IF e = Ready(t) THEN DstPrecondition(t) ELSE {}])
      /\ copyTo' = copyTo
  BY <1>4 DEF ToLocalTarget, SendNames, Src
<1>6. /\ mgr \in [Node -> Manager] /\ mt \in Manager /\ Known \in Seq(Pending)
      /\ op \in Pending /\ op.op = t /\ msg \in Name /\ Mail \in Seq(Name) /\ TAck \in Nat
      /\ DstPrecondition(t) \in SUBSET Event
  <2>1. msg \in Name BY <1>1, Domains DEF Name
  <2> QED
    BY <1>1, <2>1, DstPreconditionType, QueueType DEF PendingOp, Pending, TypeOK
<1>7. /\ mgr' \in [Node -> Manager] /\ mgr'["src"] = mgr["src"]
      /\ mgr'["tgt"].psrc = <<>> /\ mgr'["tgt"].ready = t
      /\ TAck = 0 => TAck' = 0 /\ Known' = Append(Known, op)
      /\ TAck # 0 => TAck' = t + 1 /\ Known' = Known
      /\ tpost' = [tpost EXCEPT ![t] = post]
  <2> DEFINE m2 == [mt EXCEPT !.ready = t]
  <2>1. CASE TAck = 0
    <3>1. /\ mgr' = [mgr EXCEPT !["tgt"] = [m2 EXCEPT !.pdst = Append(@, op)]]
          /\ tpost' = [tpost EXCEPT ![t] = {TUser(t)}]
      BY <1>3, <1>4, <2>1 DEF ToLocalTarget, NoBarrier
    <3>2. Append(Known, op) \in Seq(Pending) BY <1>6, AppendAt
    <3> HIDE DEF op
    <3>3. /\ mgr'["tgt"] = [mt EXCEPT !.ready = t, !.pdst = Append(Known, op)]
          /\ mgr'["src"] = mgr["src"] /\ mgr' = [mgr EXCEPT !["tgt"] = mgr'["tgt"]]
      BY <1>6, <3>1, Domains DEF Known, Manager
    <3>4. /\ mgr'["tgt"] \in Manager /\ mgr'["tgt"].ready = t /\ mgr'["tgt"].ack = mt.ack
          /\ mgr'["tgt"].psrc = mt.psrc /\ mgr'["tgt"].pdst = Append(Known, op)
      BY <1>1, <1>6, <3>2, <3>3 DEF Manager
    <3> QED BY <1>3, <1>6, <2>1, <3>1, <3>3, <3>4, Domains DEF TAck, Known
  <2>2. CASE TAck # 0
    <3>1. /\ mgr' = [mgr EXCEPT !["tgt"] = [m2 EXCEPT !.ack = @ + 1]]
          /\ tpost' = [tpost EXCEPT ![t] = {Ack(t)}]
      BY <1>3, <1>4, <2>2 DEF ToLocalTarget, NoBarrier
    <3>2. mt.ack = t BY <1>3, <2>2
    <3>3. /\ mgr'["tgt"] = [mt EXCEPT !.ready = t, !.ack = t + 1]
          /\ mgr'["src"] = mgr["src"] /\ mgr' = [mgr EXCEPT !["tgt"] = mgr'["tgt"]]
      BY <1>6, <3>1, <3>2, Domains DEF Manager
    <3>4. /\ mgr'["tgt"] \in Manager /\ mgr'["tgt"].ready = t /\ mgr'["tgt"].ack = t + 1
          /\ mgr'["tgt"].psrc = mt.psrc /\ mgr'["tgt"].pdst = mt.pdst
      <4>1. t \in Nat /\ t + 1 \in Nat /\ mt \in Manager BY <1>1, <1>6
      <4> HIDE DEF mt
      <4> QED BY <3>3, <4>1 DEF Manager
    <3> QED BY <1>3, <1>6, <2>2, <3>1, <3>3, <3>4, Domains DEF TAck, Known
  <2> QED BY <2>1, <2>2
<1> HIDE DEF op, post
<1>8. /\ Append(Mail, msg) \in Seq(Name) /\ Len(Append(Mail, msg)) = NMail + 1
      /\ \A i \in 1 .. NMail : Append(Mail, msg)[i] = Mail[i]
      /\ Append(Mail, msg)[NMail + 1] = msg
  BY <1>6, AppendAt DEF NMail
<1>9. /\ net' \in [Node -> Seq(Name)] /\ Mail' = Append(Mail, msg) /\ Acks' = Acks
  <2>1. net \in [Node -> Seq(Name)] BY <1>1 DEF TypeOK
  <2> HIDE DEF msg
  <2> QED BY <1>5, <1>8, <2>1, Domains DEF Mail, Acks
<1>10. /\ SAck' = SAck /\ Sends' = Sends /\ Recvs' = Recvs /\ NSends' = NSends
       /\ NRecvs' = NRecvs /\ NMail' = NMail + 1
       /\ \A i \in 1 .. NMail : Mail'[i] = Mail[i]
       /\ Mail'[NMail + 1].inst = t /\ Mail'[NMail + 1].barrier = t
       /\ \A i \in 1 .. NMail + 1 : i = NMail + 1 \/ i \in 1 .. NMail
  BY <1>1, <1>7, <1>8, <1>9 DEF SAck, Sends, Recvs, NSends, NRecvs, NMail
<1>11. Matched' = Matched BY <1>2, <1>10 DEF Matched
<1>12. \A k \in Op : tpost'[k] = IF k = t THEN post ELSE tpost[k]
  BY <1>1, <1>7 DEF TypeOK
<1>13. post \in {{TUser(t)}, {Ack(t)}} /\ post \in SUBSET Event BY EventType DEF post
<1>14. \A k \in Op : k <= t <=> k = t \/ k <= tIssued BY <1>1, <1>2, Domains
<1>15. Arms({TReady(t), Ready(t)}) /\ after'[Ready(t)] = DstPrecondition(t)
  <2> DEFINE f == [e \in {TReady(t), Ready(t)} |->
                     IF e = Ready(t) THEN DstPrecondition(t) ELSE {}]
  <2>1. TReady(t) \in Event /\ Ready(t) \in Event BY EventType
  <2>2. /\ DOMAIN f = {TReady(t), Ready(t)} /\ f[Ready(t)] = DstPrecondition(t)
        /\ \A e \in DOMAIN f : f[e] \in SUBSET Event
    BY <1>6
  <2>3. Arm(f) BY <1>5
  <2> HIDE DEF f
  <2>4. Arms(DOMAIN f) /\ \A e \in DOMAIN f : after'[e] = f[e]
    BY <1>1, <2>1, <2>2, <2>3, ArmArms
  <2> QED BY <2>2, <2>4
<1>16. Grows({TReady(t), Ready(t)})
  <2>1. ~(t <= tIssued) BY <1>1, <1>2
  <2>2. TReady(t) \notin armed /\ Ready(t) \notin armed BY <2>1 DEF IInv, Armed
  <2>3. tIssued' \in Nat /\ sIssued <= sIssued' /\ tIssued <= tIssued' BY <1>1, <1>2
  <2>4. \A k \in Op : k <= tIssued => k # t BY <1>1, <1>2
  <2> QED BY <1>1, <1>2, <1>5, <1>12, <1>15, <2>2, <2>3, <2>4 DEF Grows
<1>17. TypeOK'
  <2>1. tpost' \in [Op -> SUBSET Event] BY <1>1, <1>7, <1>13 DEF TypeOK
  <2>2. t \in 0 .. NOps BY <1>1, Domains
  <2> QED BY <1>1, <1>2, <1>5, <1>7, <1>9, <1>15, <2>1, <2>2 DEF TypeOK, Arms
<1>18. SourceLists'
  <2>1. remote' /\ sIssued' = sIssued BY <1>2
  <2> QED BY <1>10, <1>11, <2>1 DEF IInv, SourceLists
<1>19. TargetLists'
  <2>1. TAck = 0 => Len(Known') = t /\ \A j \in 1 .. t : Known'[j].op = j
    <3> SUFFICES ASSUME TAck = 0 PROVE Len(Known') = t /\ \A j \in 1 .. t : Known'[j].op = j
      OBVIOUS
    <3>1. Len(Known) = tIssued /\ \A j \in 1 .. tIssued : Known[j].op = j
      BY DEF IInv, TargetLists
    <3>2. /\ Len(Known') = tIssued + 1 /\ Known'[tIssued + 1] = op
          /\ \A j \in 1 .. tIssued : Known'[j] = Known[j]
      <4>1. /\ Len(Append(Known, op)) = Len(Known) + 1 /\ Append(Known, op)[Len(Known) + 1] = op
            /\ \A j \in 1 .. Len(Known) : Append(Known, op)[j] = Known[j]
        BY <1>6, AppendAt
      <4>2. Known' = Append(Known, op) BY <1>7
      <4> QED BY <3>1, <4>1, <4>2
    <3>3. \A j \in 1 .. t : j = tIssued + 1 \/ j \in 1 .. tIssued BY <1>1, <1>2
    <3> QED BY <1>2, <1>6, <3>1, <3>2, <3>3
  <2>2. TAck # 0 => TAck' # 0 /\ Known = <<>> /\ sIssued > 0
    BY <1>1, <1>7 DEF IInv, TargetLists
  <2> QED BY <1>2, <1>7, <2>1, <2>2 DEF TargetLists
<1>20. Messages'
  <2>1. TAck' = 0 <=> TAck = 0 BY <1>1, <1>7
  <2>2. \A i \in 1 .. NMail' : Mail'[i].inst # 0 /\ Mail'[i].barrier = Mail'[i].inst
    <3>1. t # 0 BY <1>1, <1>2
    <3> QED BY <1>10, <3>1 DEF IInv, Messages
  <2>3. /\ sIssued > 0 /\ TAck = 0 => Acks' = <<[barrier |-> 1, inst |-> 0]>>
        /\ sIssued = 0 \/ TAck # 0 => Acks' = <<>>
    BY <1>9 DEF IInv, Messages
  <2> QED BY <1>2, <2>1, <2>2, <2>3 DEF Messages
<1>21. NamesInOrder'
  <2> SUFFICES ASSUME InOrder PROVE NamesInOrder' BY <1>2 DEF NamesInOrder, InOrder
  <2>1. /\ Matched + NRecvs + NMail = tIssued
        /\ \A k \in Op : k <= Matched => copyTo[k] = k
        /\ \A i \in 1 .. NRecvs : Recvs[i].op = Matched + i
        /\ \A i \in 1 .. NMail : Mail[i].inst = Matched + NRecvs + i
    BY DEF IInv, NamesInOrder
  <2>2. Matched' + NRecvs' + NMail' = tIssued' /\ t = Matched + NRecvs + (NMail + 1)
    BY <1>1, <1>2, <1>10, <1>11, <2>1
  <2>3. \A i \in 1 .. NMail' : Mail'[i].inst = Matched' + NRecvs' + i
    BY <1>10, <1>11, <2>1, <2>2
  <2> QED BY <1>5, <1>10, <1>11, <2>1, <2>2, <2>3 DEF NamesInOrder
<1>22. Pairing'
  <2>1. \A k \in Op : copyTo[k] <= t /\ copyTo[k] # t
    <3> SUFFICES ASSUME NEW k \in Op PROVE copyTo[k] <= t /\ copyTo[k] # t
      OBVIOUS
    <3>1. copyTo[k] \in Int BY <1>1, Domains DEF TypeOK
    <3>2. copyTo[k] <= tIssued BY DEF IInv, Pairing
    <3> QED BY <1>1, <1>2, <3>1, <3>2
  <2>2. \A i \in 1 .. NRecvs : Recvs[i].op <= t /\ Recvs[i].op # t
    <3> SUFFICES ASSUME NEW i \in 1 .. NRecvs PROVE Recvs[i].op <= t /\ Recvs[i].op # t
      OBVIOUS
    <3>1. Recvs[i].op \in Nat BY <1>1, QueueType, Domains
    <3>2. Recvs[i].op <= tIssued BY DEF IInv, Pairing
    <3> QED BY <1>1, <1>2, <3>1, <3>2
  <2>3. \A i \in 1 .. NMail : Mail[i].inst <= t /\ Mail[i].inst # t
    <3> SUFFICES ASSUME NEW i \in 1 .. NMail PROVE Mail[i].inst <= t /\ Mail[i].inst # t
      OBVIOUS
    <3>1. Mail[i].inst \in Int BY <1>1, QueueType, Domains DEF Name
    <3>2. Mail[i].inst <= tIssued BY DEF IInv, Pairing
    <3> QED BY <1>1, <1>2, <3>1, <3>2
  <2>4. \A k \in Op : \A i \in 1 .. NMail' : copyTo[k] # Mail'[i].inst
    BY <1>10, <2>1 DEF IInv, Pairing
  <2>5. \A j \in 1 .. NRecvs : \A i \in 1 .. NMail' : Mail'[i].inst # Recvs[j].op
    BY <1>10, <2>2 DEF IInv, Pairing
  <2>6. \A j \in 1 .. NMail' :
          /\ Mail'[j].inst <= t
          /\ \A i \in 1 .. NMail' : Mail'[i].inst = Mail'[j].inst => i = j
    <3>1. t <= t BY <1>1
    <3>2. \A i, j \in 1 .. NMail : Mail[i].inst = Mail[j].inst => i = j BY DEF IInv, Pairing
    <3> QED BY <1>10, <2>3, <3>1, <3>2
  <2> QED BY <1>2, <1>5, <1>10, <1>11, <2>1, <2>2, <2>4, <2>5, <2>6 DEF IInv, Pairing
<1>23. Posts' BY <1>2, <1>12, <1>13, <1>14 DEF IInv, Posts
<1>24. Armed'
  <2>1. armed' = armed \cup {TReady(t), Ready(t)} BY <1>15 DEF Arms
  <2>2. TAck # 0 => TAck' # 0 BY <1>1, <1>7
  <2> QED BY <1>2, <1>11, <1>14, <2>1, <2>2, EventFields DEF IInv, Armed
<1>25. Waits'
  <2>1. DstPrecondition(t)' = DstPrecondition(t)
    <3>1. t <= tIssued + 1 BY <1>1, <1>2
    <3> QED BY <1>16, <3>1, GrowsKeeps
  <2>2. NewWaits({TReady(t), Ready(t)}) BY <1>15, <2>1, EventFields DEF NewWaits
  <2> QED BY <1>16, <2>2, WaitsKept
<1> QED
  BY <1>16, <1>17, <1>18, <1>19, <1>20, <1>21, <1>22, <1>23, <1>24, <1>25, GrowsKeeps DEF IInv

-----------------------------------------------------------------------------
(***************************************************************************)
(* ReceivePointToPointNames.                                               *)
(***************************************************************************)
\* A name message is taken: the receive it names is in no other place.
LEMMA MailTaken ==
  ASSUME IInv, NEW i, Take(Src, i)
  PROVE  /\ remote /\ i \in 1 .. NMail /\ NMail >= 1
         /\ net' \in [Node -> Seq(Name)] /\ Acks' = Acks /\ NMail' = NMail - 1
         /\ Mail[i].inst \in Op /\ Mail[i].barrier = Mail[i].inst /\ Mail[i].inst <= tIssued
         /\ \A k \in Op : copyTo[k] # Mail[i].inst
         /\ \A j \in 1 .. NRecvs : Recvs[j].op # Mail[i].inst
         /\ \A l \in 1 .. NMail' :
              /\ Mail'[l].inst # Mail[i].inst /\ Mail'[l].inst <= tIssued
              /\ Mail'[l].inst # 0 /\ Mail'[l].barrier = Mail'[l].inst
              /\ \A k \in Op : copyTo[k] # Mail'[l].inst
              /\ \A j \in 1 .. NRecvs : Recvs[j].op # Mail'[l].inst
              /\ \A j \in 1 .. NMail' : Mail'[j].inst = Mail'[l].inst => j = l
         /\ InOrder => /\ Mail[i].inst = Matched + NRecvs + 1
                       /\ \A l \in 1 .. NMail' : Mail'[l].inst = Matched + NRecvs + 1 + l
<1> DEFINE At(l) == IF l < i THEN l ELSE l + 1
<1>1. /\ TypeOK /\ NMail \in Nat /\ Mail \in Seq(Name) /\ Matched \in Nat /\ NRecvs \in Nat
      /\ net \in [Node -> Seq(Name)]
  BY Counts, QueueType DEF TypeOK
<1>2. /\ i \in 1 .. NMail /\ (Fifo => i = 1)
      /\ net' = [net EXCEPT !["src"] = RemoveAt(@, i)]
  BY DEF Take, Src, NMail, Mail
<1>3. NMail >= 1 BY <1>1, <1>2
<1>4. remote BY <1>3 DEF IInv, Messages
<1>5. /\ RemoveAt(Mail, i) \in Seq(Name) /\ Len(RemoveAt(Mail, i)) = NMail - 1
      /\ \A l \in 1 .. NMail - 1 : RemoveAt(Mail, i)[l] = IF l < i THEN Mail[l] ELSE Mail[l + 1]
  BY <1>1, <1>2, RemoveAtAt DEF NMail
<1>6. net' \in [Node -> Seq(Name)] /\ Acks' = Acks /\ Mail' = RemoveAt(Mail, i)
  BY <1>1, <1>2, <1>5, Domains DEF Mail, Acks
<1>7. NMail' = NMail - 1 BY <1>5, <1>6 DEF NMail
<1>8. \A l \in 1 .. NMail' : Mail'[l] = Mail[At(l)] BY <1>1, <1>2, <1>5, <1>6, <1>7
<1>9. \A l \in 1 .. NMail' : /\ At(l) \in 1 .. NMail /\ At(l) # i
                             /\ \A j \in 1 .. NMail' : At(l) = At(j) => l = j
  BY <1>1, <1>2, <1>7
<1>10. InOrder => /\ i = 1
                  /\ \A l \in 1 .. NMail' : At(l) = l + 1
                  /\ \A l \in 1 .. NMail : Mail[l].inst = Matched + NRecvs + l
  BY <1>1, <1>2, <1>4, <1>7 DEF InOrder, IInv, NamesInOrder
<1> HIDE DEF At
<1>11. \A l \in 1 .. NMail :
         /\ Mail[l].inst # 0 /\ Mail[l].barrier = Mail[l].inst /\ Mail[l].inst <= tIssued
         /\ \A k \in Op : copyTo[k] # Mail[l].inst
         /\ \A j \in 1 .. NRecvs : Recvs[j].op # Mail[l].inst
         /\ \A j \in 1 .. NMail : Mail[j].inst = Mail[l].inst => j = l
  BY DEF IInv, Messages, Pairing
<1>12. Mail[i].inst \in Op
  <2>1. Mail[i].inst \in 0 .. NOps BY <1>1, <1>2, QueueType DEF Name
  <2>2. Mail[i].inst # 0 BY <1>2, <1>11
  <2> QED BY <2>1, <2>2, Domains
<1>13. \A l \in 1 .. NMail' :
         /\ Mail'[l].inst # Mail[i].inst /\ Mail'[l].inst <= tIssued
         /\ Mail'[l].inst # 0 /\ Mail'[l].barrier = Mail'[l].inst
         /\ \A k \in Op : copyTo[k] # Mail'[l].inst
         /\ \A j \in 1 .. NRecvs : Recvs[j].op # Mail'[l].inst
         /\ \A j \in 1 .. NMail' : Mail'[j].inst = Mail'[l].inst => j = l
  BY <1>2, <1>8, <1>9, <1>11
<1>14. InOrder => /\ Mail[i].inst = Matched + NRecvs + 1
                  /\ \A l \in 1 .. NMail' : Mail'[l].inst = Matched + NRecvs + 1 + l
  <2> SUFFICES ASSUME InOrder
               PROVE  /\ Mail[i].inst = Matched + NRecvs + 1
                      /\ \A l \in 1 .. NMail' : Mail'[l].inst = Matched + NRecvs + 1 + l
    OBVIOUS
  <2>1. Mail[i].inst = Matched + NRecvs + 1 BY <1>2, <1>10
  <2>2. \A l \in 1 .. NMail' : Mail'[l].inst = Matched + NRecvs + (l + 1)
    BY <1>8, <1>9, <1>10
  <2>3. \A l \in 1 .. NMail' : Matched + NRecvs + (l + 1) = Matched + NRecvs + 1 + l
    BY <1>1, <1>7
  <2> QED BY <2>1, <2>2, <2>3
<1> QED BY <1>2, <1>3, <1>4, <1>6, <1>7, <1>11, <1>12, <1>13, <1>14

\* The source has no send that waits: the name is kept.
LEMMA NameKept ==
  ASSUME IInv, NEW i, ReceiveInstance(i), Sends = <<>>
  PROVE  IInv'
<1> DEFINE t == Mail[i].inst
           op == PendingOp(t, {Ready(t)})
<1>1. /\ TypeOK /\ sIssued \in Nat /\ tIssued \in Nat /\ NSends \in Nat /\ NRecvs \in Nat
      /\ NMail \in Nat /\ Matched \in Nat /\ Matched + NSends = sIssued
  BY Counts, Domains
<1>2. Take(Src, i) BY DEF ReceiveInstance
<1>3. /\ remote /\ i \in 1 .. NMail /\ NMail >= 1
      /\ net' \in [Node -> Seq(Name)] /\ Acks' = Acks /\ NMail' = NMail - 1
      /\ t \in Op /\ Mail[i].barrier = t /\ t <= tIssued
      /\ \A k \in Op : copyTo[k] # t
      /\ \A j \in 1 .. NRecvs : Recvs[j].op # t
      /\ \A l \in 1 .. NMail' :
           /\ Mail'[l].inst # t /\ Mail'[l].inst <= tIssued
           /\ Mail'[l].inst # 0 /\ Mail'[l].barrier = Mail'[l].inst
           /\ \A k \in Op : copyTo[k] # Mail'[l].inst
           /\ \A j \in 1 .. NRecvs : Recvs[j].op # Mail'[l].inst
           /\ \A j \in 1 .. NMail' : Mail'[j].inst = Mail'[l].inst => j = l
      /\ InOrder => /\ t = Matched + NRecvs + 1
                    /\ \A l \in 1 .. NMail' : Mail'[l].inst = Matched + NRecvs + 1 + l
  BY <1>2, MailTaken
<1>4. /\ UNCHANGED <<remote, sIssued, tIssued, spost, tpost, fired, copyTo, armed, after>>
      /\ mgr' = [mgr EXCEPT !["src"].pdst = Append(@, op)]
  BY <1>3 DEF ReceiveInstance, Src, Mail, Sends
<1>5. /\ op \in Pending /\ op.op = t /\ op.pre = {Ready(t)}
      /\ mgr \in [Node -> Manager] /\ mgr["src"] \in Manager /\ Recvs \in Seq(Pending)
  <2>1. t \in Op BY <1>3
  <2> HIDE DEF t
  <2> QED BY <1>1, <2>1, EventType, QueueType DEF PendingOp, Pending, TypeOK
<1> HIDE DEF op, t
<1>6. /\ Append(Recvs, op) \in Seq(Pending) /\ Len(Append(Recvs, op)) = NRecvs + 1
      /\ \A j \in 1 .. NRecvs : Append(Recvs, op)[j] = Recvs[j]
      /\ Append(Recvs, op)[NRecvs + 1] = op
  BY <1>5, AppendAt DEF NRecvs
<1>7. /\ mgr' \in [Node -> Manager] /\ mgr'["tgt"] = mgr["tgt"]
      /\ SAck' = SAck /\ Sends' = Sends /\ Recvs' = Append(Recvs, op)
  <2>1. /\ mgr'["src"] = [mgr["src"] EXCEPT !.pdst = Append(Recvs, op)]
        /\ mgr'["tgt"] = mgr["tgt"] /\ mgr' = [mgr EXCEPT !["src"] = mgr'["src"]]
    BY <1>4, <1>5, Domains DEF Recvs
  <2>2. /\ mgr'["src"] \in Manager /\ mgr'["src"].ack = mgr["src"].ack
        /\ mgr'["src"].psrc = mgr["src"].psrc /\ mgr'["src"].pdst = Append(Recvs, op)
    BY <1>5, <1>6, <2>1 DEF Manager
  <2> QED BY <1>5, <2>1, <2>2, Domains DEF SAck, Sends, Recvs
<1>8. /\ TAck' = TAck /\ Known' = Known /\ NSends = 0 /\ NSends' = 0 /\ Matched' = Matched
      /\ NRecvs' = NRecvs + 1 /\ Recvs'[NRecvs + 1] = op
      /\ \A j \in 1 .. NRecvs : Recvs'[j] = Recvs[j]
  BY <1>4, <1>6, <1>7 DEF TAck, Known, NRecvs, NSends, Matched
<1>9. \A j \in 1 .. NRecvs' : j = NRecvs + 1 \/ j \in 1 .. NRecvs BY <1>1, <1>8
<1>10. TypeOK' BY <1>1, <1>3, <1>4, <1>7 DEF TypeOK
<1>11. SourceLists'
  <2>1. \A j \in 1 .. NRecvs' : Recvs'[j].pre = {Ready(Recvs'[j].op)}
    BY <1>3, <1>5, <1>8, <1>9 DEF IInv, SourceLists
  <2>2. remote' /\ sIssued' = sIssued /\ SAck' = SAck BY <1>3, <1>4, <1>7
  <2>3. 1 .. NSends' = {} BY <1>8
  <2>4. /\ Matched >= 0
        /\ sIssued > 0 => SAck = Matched + 1
        /\ sIssued = 0 => SAck = 0
    BY <1>3 DEF IInv, SourceLists
  <2>5. NSends' = 0 /\ Matched' = Matched BY <1>8
  <2> QED BY <2>1, <2>2, <2>3, <2>4, <2>5 DEF SourceLists
<1>12. TargetLists' BY <1>4, <1>7, <1>8 DEF IInv, TargetLists
<1>13. Messages' BY <1>3, <1>4, <1>8 DEF IInv, Messages
<1>14. NamesInOrder'
  <2> SUFFICES ASSUME InOrder PROVE NamesInOrder' BY <1>4 DEF NamesInOrder, InOrder
  <2>1. /\ Matched + NRecvs + NMail = tIssued
        /\ \A k \in Op : k <= Matched => copyTo[k] = k
        /\ \A j \in 1 .. NRecvs : Recvs[j].op = Matched + j
    BY DEF IInv, NamesInOrder
  <2>2. Matched' + NRecvs' + NMail' = tIssued' BY <1>1, <1>3, <1>4, <1>8, <2>1
  <2>3. t = Matched + (NRecvs + 1) BY <1>1, <1>3
  <2>4. \A j \in 1 .. NRecvs' : Recvs'[j].op = Matched' + j BY <1>5, <1>8, <1>9, <2>1, <2>3
  <2>5. \A l \in 1 .. NMail' : Mail'[l].inst = Matched' + NRecvs' + l BY <1>1, <1>3, <1>8
  <2> QED BY <1>4, <1>8, <2>1, <2>2, <2>4, <2>5 DEF NamesInOrder
<1>15. Pairing'
  <2>1. \A k \in Op : \A j \in 1 .. NRecvs' : copyTo[k] # Recvs'[j].op
    BY <1>3, <1>5, <1>8, <1>9 DEF IInv, Pairing
  <2>2. \A j \in 1 .. NRecvs' :
          /\ Recvs'[j].op <= tIssued
          /\ \A l \in 1 .. NRecvs' : Recvs'[l].op = Recvs'[j].op => l = j
    <3>1. \A j \in 1 .. NRecvs :
            Recvs[j].op <= tIssued /\ \A l \in 1 .. NRecvs : Recvs[l].op = Recvs[j].op => l = j
      BY DEF IInv, Pairing
    <3> QED BY <1>3, <1>5, <1>8, <1>9, <3>1
  <2>3. \A j \in 1 .. NRecvs' : \A l \in 1 .. NMail' : Mail'[l].inst # Recvs'[j].op
    BY <1>3, <1>5, <1>8, <1>9
  <2>4. \A k \in Op : /\ (copyTo[k] # 0) <=> (k <= Matched)
                      /\ copyTo[k] <= tIssued
                      /\ \A j \in Op : copyTo[k] # 0 /\ copyTo[k] = copyTo[j] => j = k
    BY DEF IInv, Pairing
  <2> QED BY <1>3, <1>4, <1>8, <2>1, <2>2, <2>3, <2>4 DEF Pairing
<1>16. Posts' BY <1>4 DEF IInv, Posts
<1>17. Armed' BY <1>4, <1>8 DEF IInv, Armed
<1>18. Grows({})
  BY <1>1, <1>4 DEF Grows, Arms, TypeOK
<1>19. Waits'
  <2>1. NewWaits({}) BY DEF NewWaits
  <2> QED BY <1>18, <2>1, WaitsKept
<1> QED
  BY <1>10, <1>11, <1>12, <1>13, <1>14, <1>15, <1>16, <1>17, <1>18, <1>19, GrowsKeeps DEF IInv

\* The source has a send that waits: the first one is copied to the receive named.
LEMMA NamePairs ==
  ASSUME IInv, NEW i, ReceiveInstance(i), Sends # <<>>
  PROVE  IInv'
<1> DEFINE t == Mail[i].inst
           s == Matched + 1
           N == {SUser(s), CopyEv(s), Ack(s)}
<1>1. /\ TypeOK /\ sIssued \in Nat /\ tIssued \in Nat /\ NSends \in Nat /\ NRecvs \in Nat
      /\ NMail \in Nat /\ Matched \in Nat /\ Matched + NSends = sIssued /\ sIssued <= NOps
  BY Counts, Domains
<1>2. Take(Src, i) BY DEF ReceiveInstance
<1>3. /\ remote /\ i \in 1 .. NMail /\ NMail >= 1
      /\ net' \in [Node -> Seq(Name)] /\ Acks' = Acks /\ NMail' = NMail - 1
      /\ t \in Op /\ Mail[i].barrier = t /\ t <= tIssued
      /\ \A k \in Op : copyTo[k] # t
      /\ \A j \in 1 .. NRecvs : Recvs[j].op # t
      /\ \A l \in 1 .. NMail' :
           /\ Mail'[l].inst # t /\ Mail'[l].inst <= tIssued
           /\ Mail'[l].inst # 0 /\ Mail'[l].barrier = Mail'[l].inst
           /\ \A k \in Op : copyTo[k] # Mail'[l].inst
           /\ \A j \in 1 .. NRecvs : Recvs[j].op # Mail'[l].inst
           /\ \A j \in 1 .. NMail' : Mail'[j].inst = Mail'[l].inst => j = l
      /\ InOrder => /\ t = Matched + NRecvs + 1
                    /\ \A l \in 1 .. NMail' : Mail'[l].inst = Matched + NRecvs + 1 + l
  BY <1>2, MailTaken
<1>4. /\ Sends \in Seq(Pending) /\ NSends >= 1 /\ Head(Sends) = Sends[1]
      /\ Tail(Sends) \in Seq(Pending) /\ Len(Tail(Sends)) = NSends - 1
      /\ \A j \in 1 .. NSends - 1 : Tail(Sends)[j] = Sends[j + 1]
  <2>1. Sends \in Seq(Pending) BY <1>1, QueueType
  <2> QED BY <2>1, TailAt DEF NSends
<1>5. NRecvs = 0 /\ sIssued > 0 /\ s \in Op /\ s \in Nat /\ SAck = s /\ Matched < s
  <2>1. NRecvs = 0 BY <1>1, <1>4 DEF IInv, SourceLists
  <2>2. sIssued > 0 /\ s <= NOps /\ s \in Nat /\ s >= 1 /\ Matched < s
    <3>1. NSends >= 1 /\ NOps \in Nat BY <1>4, Domains
    <3> QED BY <1>1, <3>1
  <2>3. SAck = s BY <1>3, <2>2 DEF IInv, SourceLists
  <2> QED BY <2>1, <2>2, <2>3, Domains
<1>6. Sends[1].op = s /\ Sends[1].pre = {SReady(s)}
  <2>1. 1 \in 1 .. NSends BY <1>1, <1>4
  <2> QED BY <2>1 DEF IInv, SourceLists
<1> DEFINE copy == RemoteCopy(s, {Ready(t)}, s)
<1>7. /\ UNCHANGED <<remote, sIssued, tIssued, spost, tpost, fired>>
      /\ copyTo' = [copyTo EXCEPT ![s] = t]
      /\ Arm([e \in DOMAIN copy \cup {SUser(s)} |->
                IF e \in DOMAIN copy THEN copy[e] ELSE {CopyEv(s)}])
      /\ mgr' = [mgr EXCEPT !["src"].psrc = Tail(@), !["src"].ack = @ + 1]
  <2>1. /\ mgr[Src].psrc = Sends /\ Src = "src" /\ Head(mgr[Src].psrc).op = s
        /\ net[Src][i].inst = t /\ net[Src][i].barrier = t /\ mgr[Src].ack = s
    BY <1>3, <1>4, <1>5, <1>6 DEF Src, Sends, Mail, SAck
  <2> HIDE DEF s, t
  <2> QED BY <2>1 DEF ReceiveInstance
<1> HIDE DEF s, t
<1>8. /\ mgr' \in [Node -> Manager] /\ mgr'["tgt"] = mgr["tgt"]
      /\ SAck' = s + 1 /\ Sends' = Tail(Sends) /\ Recvs' = Recvs
  <2>1. /\ mgr["src"] \in Manager /\ mgr \in [Node -> Manager] /\ s + 1 \in Nat
        /\ mgr["src"].ack = s
    BY SMTT(30), <1>1, <1>5, QueueType DEF TypeOK, SAck
  <2>2. /\ mgr'["src"] = [mgr["src"] EXCEPT !.psrc = Tail(Sends), !.ack = s + 1]
        /\ mgr'["tgt"] = mgr["tgt"] /\ mgr' = [mgr EXCEPT !["src"] = mgr'["src"]]
    BY <1>7, <2>1, Domains DEF Sends, Manager
  <2>3. /\ mgr'["src"] \in Manager /\ mgr'["src"].ack = s + 1
        /\ mgr'["src"].psrc = Tail(Sends) /\ mgr'["src"].pdst = mgr["src"].pdst
    BY <1>4, <2>1, <2>2 DEF Manager
  <2> QED BY <2>1, <2>2, <2>3, Domains DEF SAck, Sends, Recvs
<1>9. /\ TAck' = TAck /\ Known' = Known /\ NRecvs' = 0 /\ NSends' = NSends - 1
      /\ \A j \in 1 .. NSends - 1 : Sends'[j] = Sends[j + 1]
  BY <1>4, <1>5, <1>8 DEF TAck, Known, NRecvs, NSends
<1>10. Matched' = s BY <1>1, <1>7, <1>9 DEF Matched, s
<1>11. /\ SUser(s) \in Event /\ CopyEv(s) \in Event /\ Ack(s) \in Event
       /\ CopyEv(s) # SUser(s) /\ Ack(s) # SUser(s) /\ CopyEv(s) # Ack(s)
       /\ {Ready(t), SReady(s)} \in SUBSET Event
  <2>1. s \in Op /\ t \in Op BY <1>3, <1>5
  <2>2. Ready(t) \in Event /\ SReady(s) \in Event BY <2>1, EventType
  <2> QED BY <2>1, <2>2, EventType, EventsDiffer
<1>12. /\ Arms(N) /\ after'[CopyEv(s)] = {Ready(t), SReady(s)}
       /\ after'[Ack(s)] = {CopyEv(s)} /\ after'[SUser(s)] = {CopyEv(s)}
  <2> DEFINE P == {Ready(t), SReady(s)}
             f == [e \in DOMAIN copy \cup {SUser(s)} |->
                     IF e \in DOMAIN copy THEN copy[e] ELSE {CopyEv(s)}]
  <2>1. Arm(f) BY <1>7
  <2>2. copy = [e \in {CopyEv(s), Ack(s)} |-> IF e = Ack(s) THEN {CopyEv(s)} ELSE P]
    BY DEF RemoteCopy, SrcPrecondition
  <2> HIDE DEF copy, P
  <2>3. DOMAIN copy = {CopyEv(s), Ack(s)} BY <2>2
  <2>4. DOMAIN f = N BY <2>3
  <2>5. f[CopyEv(s)] = P /\ f[Ack(s)] = {CopyEv(s)} /\ f[SUser(s)] = {CopyEv(s)}
    BY <1>11, <2>2, <2>3
  <2> HIDE DEF f
  <2>6. DOMAIN f \subseteq Event /\ \A e \in DOMAIN f : f[e] \in SUBSET Event
    <3>1. {CopyEv(s)} \in SUBSET Event /\ P \in SUBSET Event BY <1>11 DEF P
    <3> QED BY <1>11, <2>4, <2>5, <3>1
  <2>7. Arms(DOMAIN f) /\ \A e \in DOMAIN f : after'[e] = f[e]
    BY <1>1, <2>1, <2>6, ArmArms
  <2> QED BY <2>4, <2>5, <2>7 DEF P
<1> HIDE DEF copy
<1>13. \A k \in Op : copyTo'[k] = IF k = s THEN t ELSE copyTo[k]
  BY <1>1, <1>5, <1>7 DEF TypeOK
<1>14. \A k \in Op : k <= s <=> k = s \/ k <= Matched BY <1>1, Domains DEF s
<1>15. Grows(N)
  <2>1. ~(s <= Matched) BY <1>1 DEF s
  <2>2. SUser(s) \notin armed /\ CopyEv(s) \notin armed /\ Ack(s) \notin armed
    BY <1>5, <2>1 DEF IInv, Armed
  <2>3. sIssued' \in Nat /\ tIssued' \in Nat /\ sIssued <= sIssued' /\ tIssued <= tIssued'
    BY <1>1, <1>7
  <2>4. \A k \in Op : k <= Matched => k # s BY <2>1
  <2> QED BY <1>7, <1>12, <1>13, <2>2, <2>3, <2>4 DEF Grows
<1>16. TypeOK'
  <2>1. copyTo' \in [Op -> 0 .. NOps]
    <3>1. t \in 0 .. NOps BY <1>3, Domains
    <3> QED BY <1>1, <1>7, <3>1 DEF TypeOK
  <2> QED BY <1>1, <1>3, <1>7, <1>8, <1>12, <2>1 DEF TypeOK, Arms
<1>17. SourceLists'
  <2>1. \A j \in 1 .. NSends' : Sends'[j].op = s + j /\ Sends'[j].pre = {SReady(s + j)}
    <3> SUFFICES ASSUME NEW j \in 1 .. NSends'
                 PROVE  Sends'[j].op = s + j /\ Sends'[j].pre = {SReady(s + j)}
      OBVIOUS
    <3>1. j + 1 \in 1 .. NSends /\ Sends'[j] = Sends[j + 1] /\ s + j = Matched + (j + 1)
      BY <1>1, <1>9 DEF s
    <3> QED BY <3>1 DEF IInv, SourceLists
  <2>2. remote' /\ sIssued' > 0 /\ SAck' = Matched' + 1 BY <1>3, <1>5, <1>7, <1>8, <1>10
  <2>3. Matched' >= 0 /\ 1 .. NRecvs' = {} /\ NRecvs' = 0 BY <1>5, <1>9, <1>10
  <2>4. sIssued' # 0 BY <1>5, <1>7
  <2> QED BY <1>10, <2>1, <2>2, <2>3, <2>4 DEF SourceLists
<1>18. TargetLists' BY <1>7, <1>8, <1>9 DEF IInv, TargetLists
<1>19. Messages' BY <1>3, <1>7, <1>9 DEF IInv, Messages
<1>20. NamesInOrder'
  <2> SUFFICES ASSUME InOrder PROVE NamesInOrder' BY <1>7 DEF NamesInOrder, InOrder
  <2>1. /\ Matched + NRecvs + NMail = tIssued
        /\ \A k \in Op : k <= Matched => copyTo[k] = k
    BY DEF IInv, NamesInOrder
  <2>2. Matched' + NRecvs' + NMail' = tIssued' /\ t = s
    BY <1>1, <1>3, <1>5, <1>7, <1>9, <1>10, <2>1 DEF s
  <2>3. \A k \in Op : k <= Matched' => copyTo'[k] = k BY <1>10, <1>13, <1>14, <2>1, <2>2
  <2>4. \A l \in 1 .. NMail' : Mail'[l].inst = Matched' + NRecvs' + l
    BY <1>1, <1>3, <1>5, <1>9, <1>10 DEF s
  <2>5. 1 .. NRecvs' = {} BY <1>9
  <2> QED BY <2>2, <2>3, <2>4, <2>5 DEF NamesInOrder
<1>21. Pairing'
  <2>1. \A k \in Op : /\ (copyTo[k] # 0) <=> (k <= Matched)
                      /\ copyTo[k] <= tIssued
                      /\ \A j \in Op : copyTo[k] # 0 /\ copyTo[k] = copyTo[j] => j = k
    BY DEF IInv, Pairing
  <2>2. t # 0 BY <1>3, Domains
  <2>3. \A k \in Op : /\ (copyTo'[k] # 0) <=> (k <= s)
                      /\ copyTo'[k] <= tIssued
                      /\ \A j \in Op : copyTo'[k] # 0 /\ copyTo'[k] = copyTo'[j] => j = k
    BY <1>3, <1>13, <1>14, <2>1, <2>2
  <2>4. \A k \in Op : \A l \in 1 .. NMail' : copyTo'[k] # Mail'[l].inst BY <1>3, <1>13
  <2>5. 1 .. NRecvs' = {} BY <1>9
  <2> QED BY <1>3, <1>7, <1>10, <2>3, <2>4, <2>5 DEF Pairing
<1>22. Posts' BY <1>7 DEF IInv, Posts
<1>23. Armed'
  <2>1. armed' = armed \cup {SUser(s), CopyEv(s), Ack(s)} BY <1>12 DEF Arms
  <2> QED BY SMTT(30), <1>3, <1>7, <1>9, <1>10, <1>14, <2>1, EventFields DEF IInv, Armed
<1>24. Waits'
  <2>1. copyTo'[s] = t BY <1>5, <1>13
  <2>2. NewWaits({SUser(s), CopyEv(s), Ack(s)})
    BY <1>3, <1>12, <2>1, EventFields DEF NewWaits
  <2> QED BY <1>15, <2>2, WaitsKept
<1> QED
  BY <1>15, <1>16, <1>17, <1>18, <1>19, <1>20, <1>21, <1>22, <1>23, <1>24, GrowsKeeps DEF IInv

\* The target learns of the ack barrier: the receives that wait get their generations.
LEMMA BarrierNamed ==
  ASSUME IInv, NEW i, ReceiveBarrier(i)
  PROVE  IInv'
<1> DEFINE N == {TUser(k) : k \in 1 .. tIssued}
           msg == [barrier |-> 1, inst |-> 0]
<1>1. /\ TypeOK /\ sIssued \in Nat /\ tIssued \in Nat /\ NSends \in Nat /\ NRecvs \in Nat
      /\ NMail \in Nat /\ Matched \in Nat /\ tIssued <= NOps /\ NOps \in Nat
  BY Counts, Domains
<1>2. /\ Take(Tgt, i) /\ net[Tgt][i].inst = 0 /\ i \in 1 .. Len(net[Tgt])
      /\ UNCHANGED <<remote, sIssued, tIssued, spost, tpost, copyTo, fired>>
  BY DEF ReceiveBarrier, Take
<1>3. remote
  <2> SUFFICES ASSUME ~remote PROVE FALSE OBVIOUS
  <2>1. i \in 1 .. NMail BY <1>2 DEF Tgt, NMail, Mail
  <2>2. NMail = 0 BY DEF IInv, Messages
  <2> QED BY <2>1, <2>2
<1>4. Tgt = "tgt" /\ net[Tgt] = Acks BY <1>3 DEF Tgt, Acks
<1>5. Acks # <<>>
  <2>1. i \in 1 .. Len(Acks) BY <1>2, <1>4
  <2> SUFFICES ASSUME Acks = <<>> PROVE FALSE OBVIOUS
  <2>2. Len(Acks) = 0 OBVIOUS
  <2> QED BY <2>1, <2>2
<1>6. Acks = <<msg>> /\ sIssued > 0 /\ TAck = 0 BY <1>1, <1>5 DEF IInv, Messages
<1>7. i = 1 /\ net[Tgt][i] = msg
  <2>1. i \in 1 .. Len(Acks) BY <1>2, <1>4
  <2>2. Len(<<msg>>) = 1 OBVIOUS
  <2>3. i = 1 BY <1>6, <2>1, <2>2
  <2> QED BY <1>4, <1>6, <2>3
<1>8. Len(Known) = tIssued /\ DOMAIN Known = 1 .. tIssued /\ \A j \in 1 .. tIssued : Known[j].op = j
  <2>1. Len(Known) = tIssued /\ \A j \in 1 .. tIssued : Known[j].op = j
    BY <1>3, <1>6 DEF IInv, TargetLists
  <2>2. Known \in Seq(Pending) BY <1>1, QueueType
  <2> QED BY <2>1, <2>2
<1> DEFINE f == [e \in {TUser(Known[j].op) : j \in DOMAIN Known} |->
                   {Ack(1 + j - 1) : j \in {l \in DOMAIN Known : TUser(Known[l].op) = e}}]
<1>9. /\ net' = [net EXCEPT !["tgt"] = RemoveAt(@, 1)] /\ Arm(f)
      /\ mgr' = [mgr EXCEPT !["tgt"].pdst = <<>>, !["tgt"].ack = 1 + Len(Known)]
  <2>1. mgr[Tgt].pdst = Known /\ net[Tgt][i].barrier = 1 BY <1>4, <1>7 DEF Known
  <2> QED BY <1>4, <1>7, <2>1 DEF ReceiveBarrier, Take
<1>10. net' \in [Node -> Seq(Name)] /\ Mail' = Mail /\ NMail' = NMail /\ Acks' = <<>>
  <2>1. net \in [Node -> Seq(Name)] /\ Acks \in Seq(Name) BY <1>1, QueueType DEF TypeOK
  <2>2. 1 \in 1 .. Len(Acks) /\ Len(Acks) = 1 BY <1>6
  <2>3. RemoveAt(Acks, 1) \in Seq(Name) /\ Len(RemoveAt(Acks, 1)) = 0
    <3>1. 1 \in 1 .. Len(Acks) /\ Acks \in Seq(Name) BY <2>1, <2>2
    <3>2. RemoveAt(Acks, 1) \in Seq(Name) /\ Len(RemoveAt(Acks, 1)) = Len(Acks) - 1
      BY <3>1, RemoveAtAt
    <3> QED BY <2>2, <3>2
  <2>4. RemoveAt(Acks, 1) = <<>> BY <2>3
  <2> QED BY <1>9, <2>1, <2>3, <2>4, Domains DEF Mail, Acks, NMail
<1>11. /\ mgr' \in [Node -> Manager] /\ mgr'["src"] = mgr["src"]
       /\ mgr'["tgt"].psrc = mgr["tgt"].psrc /\ mgr'["tgt"].ready = mgr["tgt"].ready
       /\ TAck' = tIssued + 1 /\ Known' = <<>>
  <2>1. /\ mgr["tgt"] \in Manager /\ mgr \in [Node -> Manager]
        /\ tIssued + 1 \in Nat /\ 1 + Len(Known) = tIssued + 1
    BY <1>1, <1>8, QueueType DEF TypeOK
  <2>2. /\ mgr'["tgt"] = [mgr["tgt"] EXCEPT !.pdst = <<>>, !.ack = tIssued + 1]
        /\ mgr'["src"] = mgr["src"] /\ mgr' = [mgr EXCEPT !["tgt"] = mgr'["tgt"]]
    BY <1>9, <2>1, Domains
  <2>3. <<>> \in Seq(Pending) OBVIOUS
  <2>4. /\ mgr'["tgt"] \in Manager /\ mgr'["tgt"].ack = tIssued + 1
        /\ mgr'["tgt"].psrc = mgr["tgt"].psrc /\ mgr'["tgt"].pdst = <<>>
        /\ mgr'["tgt"].ready = mgr["tgt"].ready
    BY <2>1, <2>2, <2>3 DEF Manager
  <2> QED BY <2>1, <2>2, <2>4, Domains DEF TAck, Known
<1>12. /\ SAck' = SAck /\ Sends' = Sends /\ Recvs' = Recvs /\ NSends' = NSends
       /\ NRecvs' = NRecvs /\ Matched' = Matched
  BY <1>2, <1>11 DEF SAck, Sends, Recvs, NSends, NRecvs, Matched
<1>13. \A k \in 1 .. tIssued : k \in Op /\ k \in Nat BY <1>1, Domains
<1>14. Arms(N) /\ \A k \in 1 .. tIssued : after'[TUser(k)] = {Ack(k)}
  <2>1. DOMAIN f = N BY <1>8
  <2>2. \A k \in 1 .. tIssued : f[TUser(k)] = {Ack(k)}
    <3> SUFFICES ASSUME NEW k \in 1 .. tIssued PROVE f[TUser(k)] = {Ack(k)}
      OBVIOUS
    <3>1. TUser(k) \in N OBVIOUS
    <3>2. \A j \in 1 .. tIssued : TUser(j) = TUser(k) <=> j = k BY EventFields
    <3>3. {l \in DOMAIN Known : TUser(Known[l].op) = TUser(k)} = {k} BY <1>8, <3>2
    <3>4. f[TUser(k)] = {Ack(1 + j - 1) : j \in {k}} BY <2>1, <3>1, <3>3
    <3>5. 1 + k - 1 = k BY <1>13
    <3> QED BY <3>4, <3>5
  <2>3. Arm(f) BY <1>9
  <2> HIDE DEF f
  <2>4. DOMAIN f \subseteq Event /\ \A e \in DOMAIN f : f[e] \in SUBSET Event
    BY <1>13, <2>1, <2>2, EventType
  <2>5. Arms(DOMAIN f) /\ \A e \in DOMAIN f : after'[e] = f[e]
    BY <1>1, <2>3, <2>4, ArmArms
  <2> QED BY <2>1, <2>2, <2>5
<1> HIDE DEF f
<1>15. \A k \in Op : /\ TUser(k) \in N <=> k <= tIssued
                     /\ SReady(k) \notin N /\ TReady(k) \notin N /\ SUser(k) \notin N
                     /\ CopyEv(k) \notin N /\ Ready(k) \notin N /\ Ack(k) \notin N
  <2> SUFFICES ASSUME NEW k \in Op
               PROVE  /\ TUser(k) \in N <=> k <= tIssued
                      /\ SReady(k) \notin N /\ TReady(k) \notin N /\ SUser(k) \notin N
                      /\ CopyEv(k) \notin N /\ Ready(k) \notin N /\ Ack(k) \notin N
    OBVIOUS
  <2>1. k <= tIssued <=> k \in 1 .. tIssued BY <1>1, Domains
  <2>2. \A j : TUser(j) = TUser(k) => j = k BY EventFields
  <2>3. TUser(k) \in N <=> k \in 1 .. tIssued BY <2>2
  <2>4. \A j : /\ SReady(k) # TUser(j) /\ TReady(k) # TUser(j) /\ SUser(k) # TUser(j)
               /\ CopyEv(k) # TUser(j) /\ Ready(k) # TUser(j) /\ Ack(k) # TUser(j)
    BY EventFields
  <2> QED BY <2>1, <2>3, <2>4
<1>16. Grows(N)
  <2>1. \A k \in 1 .. tIssued : TUser(k) \notin armed BY <1>3, <1>6, <1>13 DEF IInv, Armed
  <2>2. sIssued' \in Nat /\ tIssued' \in Nat /\ sIssued <= sIssued' /\ tIssued <= tIssued'
    BY <1>1, <1>2
  <2> QED BY <1>2, <1>14, <2>1, <2>2 DEF Grows
<1>17. TypeOK' BY <1>1, <1>2, <1>10, <1>11, <1>14 DEF TypeOK, Arms
<1>18. SourceLists'
  <2>1. \A k : DstPrecondition(k)' = DstPrecondition(k) BY <1>2 DEF DstPrecondition
  <2>2. remote' /\ sIssued' = sIssued BY <1>2, <1>3
  <2> QED BY <1>3, <1>12, <2>2 DEF IInv, SourceLists
<1>19. TargetLists'
  <2>1. TAck' # 0 BY <1>1, <1>11
  <2> QED BY <1>2, <1>3, <1>6, <1>11, <2>1 DEF IInv, TargetLists
<1>20. Messages'
  <2>1. TAck' # 0 BY <1>1, <1>11
  <2> QED BY <1>2, <1>3, <1>10, <2>1 DEF IInv, Messages
<1>21. NamesInOrder' BY <1>2, <1>10, <1>12 DEF IInv, NamesInOrder, InOrder
<1>22. Pairing' BY <1>2, <1>10, <1>12 DEF IInv, Pairing
<1>23. Posts' BY <1>2 DEF IInv, Posts
<1>24. Armed'
  <2>1. armed' = armed \cup N BY <1>14 DEF Arms
  <2>2. TAck' # 0 BY <1>1, <1>11
  <2> HIDE DEF N
  <2> QED BY <1>2, <1>3, <1>12, <1>15, <2>1, <2>2 DEF IInv, Armed
<1>25. Waits'
  <2>1. \A k \in Op : TUser(k) \in N => after'[TUser(k)] = {Ack(k)}
    <3>1. \A k \in Op : k <= tIssued => k \in 1 .. tIssued BY <1>1, Domains
    <3> QED BY <1>14, <1>15, <3>1
  <2> HIDE DEF N
  <2>2. NewWaits(N) BY <1>3, <1>15, <2>1 DEF NewWaits
  <2> QED BY <1>16, <2>2, WaitsKept
<1> QED
  BY <1>16, <1>17, <1>18, <1>19, <1>20, <1>21, <1>22, <1>23, <1>24, <1>25, GrowsKeeps DEF IInv

-----------------------------------------------------------------------------
(***************************************************************************)
(* Events that trigger.                                                    *)
(***************************************************************************)
\* A receive is done only after the copy of the send of its number, and for a remote
\* source after the acknowledgement of that copy.
LEMMA ReceivedAfterCopy ==
  ASSUME IInv, NEW k \in Op, ReceivedDone(k)
  PROVE  CopyEv(k) \in fired /\ (remote => Ack(k) \in fired)
<1>1. /\ fired \subseteq armed /\ \A e \in fired : after[e] \subseteq fired
  BY DEF IInv, TypeOK, Fired
<1>2. k <= tIssued /\ tpost[k] \subseteq fired BY DEF ReceivedDone
<1>3. CASE remote
  <2>1. tpost[k] \in {{TUser(k)}, {Ack(k)}} BY <1>2, <1>3 DEF IInv, Posts
  <2>2. Ack(k) \in fired
    <3>1. TUser(k) \in fired => Ack(k) \in fired
      BY <1>1, <1>3 DEF IInv, Waits
    <3> QED BY <1>2, <2>1, <3>1
  <2>3. CopyEv(k) \in fired BY <1>1, <2>2 DEF IInv, Waits
  <2> QED BY <2>2, <2>3
<1>4. CASE ~remote
  <2>1. tpost[k] \in {{TUser(k)}, {CopyEv(k)}} BY <1>2, <1>4 DEF IInv, Posts
  <2>2. TUser(k) \in fired => CopyEv(k) \in fired
    BY <1>1, <1>4 DEF IInv, Waits
  <2> QED BY <1>2, <1>4, <2>1, <2>2
<1> QED BY <1>3, <1>4

\* What a copy waits for includes the previous receive of the array it writes.
LEMMA CopyAfterPrevious ==
  ASSUME IInv, NEW k \in Op, CopyEv(k) \in armed, after[CopyEv(k)] \subseteq fired
  PROVE  LET p == copyTo[k] IN
         /\ k <= Matched /\ p \in Op /\ p <= tIssued
         /\ SReady(k) \in fired /\ TReady(p) \in fired
         /\ p # 1 => p - 1 \in Op /\ ReceivedDone(p - 1)
         /\ InOrder => p = k
<1> DEFINE p == copyTo[k]
<1>1. /\ TypeOK /\ tIssued \in Nat /\ fired \subseteq armed
      /\ \A e \in fired : after[e] \subseteq fired
  BY Counts DEF IInv, TypeOK, Fired
<1>2. k <= Matched BY DEF IInv, Armed
<1>3. p # 0 /\ p <= tIssued BY <1>2 DEF IInv, Pairing
<1>4. p \in Op BY <1>1, <1>3, Domains DEF TypeOK
<1>5. InOrder => p = k BY <1>2 DEF IInv, NamesInOrder
<1> HIDE DEF p
<1>6. DstPrecondition(p) \subseteq fired /\ SReady(k) \in fired
  <2>1. CASE remote
    <3>1. after[CopyEv(k)] = {Ready(p), SReady(k)} BY <2>1 DEF IInv, Waits, p
    <3>2. Ready(p) \in fired /\ SReady(k) \in fired BY <3>1
    <3>3. after[Ready(p)] = DstPrecondition(p) BY <1>1, <1>4, <3>2 DEF IInv, Waits
    <3> QED BY <1>1, <3>2, <3>3
  <2>2. CASE ~remote
    <3>1. after[CopyEv(k)] = DstPrecondition(k) \cup {SReady(k)} BY <2>2 DEF IInv, Waits
    <3>2. p = k BY <1>5, <2>2 DEF InOrder
    <3> QED BY <3>1, <3>2
  <2> QED BY <2>1, <2>2
<1>7. TReady(p) \in fired BY <1>6 DEF DstPrecondition
<1>8. p # 1 => p - 1 \in Op /\ ReceivedDone(p - 1)
  <2> SUFFICES ASSUME p # 1 PROVE p - 1 \in Op /\ ReceivedDone(p - 1) OBVIOUS
  <2>1. p - 1 \in Op /\ p - 1 <= tIssued BY <1>1, <1>3, <1>4, Domains
  <2>2. tpost[p - 1] \subseteq fired BY <1>6 DEF DstPrecondition
  <2> QED BY <2>1, <2>2 DEF ReceivedDone
<1> QED BY <1>2, <1>3, <1>4, <1>5, <1>6, <1>7, <1>8 DEF p

\* A copy that triggers is not meant for a later receive.
LEMMA CopyNotLater ==
  ASSUME IInv, remote, NEW k \in Op, CopyEv(k) \in armed \ fired, after[CopyEv(k)] \subseteq fired
  PROVE  copyTo[k] <= k
<1> DEFINE p == copyTo[k]
<1>1. p \in Op /\ (p # 1 => p - 1 \in Op /\ ReceivedDone(p - 1)) BY CopyAfterPrevious
<1>2. p \in Nat /\ k \in Nat /\ k >= 1 BY <1>1, Domains
<1> HIDE DEF p
<1> SUFFICES ASSUME p > k PROVE FALSE BY <1>2 DEF p
<1>3. p # 1 /\ k <= p - 1 BY <1>2
<1>4. Ack(p - 1) \in fired BY <1>1, <1>3, ReceivedAfterCopy
<1>5. Ack(k) \in fired
  <2>1. k = p - 1 \/ k \in 1 .. (p - 1) - 1 BY <1>2, <1>3
  <2> QED BY <1>1, <1>3, <1>4, <2>1 DEF IInv, Fired
<1>6. CopyEv(k) \in fired BY <1>5 DEF IInv, Fired, Waits, TypeOK
<1> QED BY <1>6

\* A copy that is acknowledged went to the receive of its number.
LEMMA AckInOrder ==
  ASSUME IInv, remote, NEW k \in Op, Ack(k) \in armed, after[Ack(k)] \subseteq fired,
         \A g \in 1 .. k - 1 : Ack(g) \in fired
  PROVE  copyTo[k] = k
<1>1. CopyEv(k) \in fired BY DEF IInv, Waits
<1>2. copyTo[k] <= k BY <1>1 DEF IInv, Order
<1>3. k <= Matched BY DEF IInv, Armed
<1>4. copyTo[k] # 0 BY <1>3 DEF IInv, Pairing
<1>5. copyTo[k] \in Op BY <1>4, Domains DEF IInv, TypeOK
<1> SUFFICES ASSUME copyTo[k] # k PROVE FALSE OBVIOUS
<1>6. copyTo[k] \in 1 .. k - 1
  <2> DEFINE p == copyTo[k]
  <2>1. p \in Op /\ p <= k /\ p # k BY <1>2, <1>5
  <2> HIDE DEF p
  <2>2. p \in Nat /\ p >= 1 /\ k \in Nat BY <2>1, Domains
  <2>3. p \in 1 .. k - 1 BY <2>1, <2>2
  <2> QED BY <2>3 DEF p
<1>7. copyTo[copyTo[k]] = copyTo[k] BY <1>5, <1>6 DEF IInv, Order
<1>8. copyTo[k] = k BY <1>4, <1>5, <1>7 DEF IInv, Pairing
<1> QED BY <1>8

\* Triggering an event keeps the invariant.
LEMMA FireKeeps ==
  ASSUME IInv, NEW e, Fire(e)
  PROVE  IInv'
<1>1. /\ e \in armed \ fired /\ after[e] \subseteq fired /\ fired' = fired \cup {e}
      /\ e[1] \in {"ready", "ack"} => \A g \in 1 .. e[2] - 1 : <<e[1], g>> \in fired
      /\ UNCHANGED <<remote, sIssued, tIssued, mgr, net, spost, tpost, copyTo, armed, after>>
  BY DEF Fire
<1>2. \A k : e = Ack(k) => \A g \in 1 .. k - 1 : Ack(g) \in fired
  <2> SUFFICES ASSUME NEW k, e = Ack(k) PROVE \A g \in 1 .. k - 1 : Ack(g) \in fired
    OBVIOUS
  <2>1. e[1] = "ack" /\ e[2] = k BY EventFields
  <2> QED BY <1>1, <2>1 DEF Ack
<1>3. TypeOK' BY <1>1 DEF IInv, TypeOK
<1>4. /\ Sends' = Sends /\ Recvs' = Recvs /\ Known' = Known /\ Mail' = Mail /\ Acks' = Acks
      /\ NSends' = NSends /\ NRecvs' = NRecvs /\ NMail' = NMail /\ Matched' = Matched
      /\ SAck' = SAck /\ TAck' = TAck
  BY <1>1 DEF Sends, Recvs, Known, Mail, Acks, NSends, NRecvs, NMail, Matched, SAck, TAck
<1>5. SourceLists' BY <1>1, <1>4 DEF IInv, SourceLists, DstPrecondition
<1>6. TargetLists' /\ Messages' BY <1>1, <1>4 DEF IInv, TargetLists, Messages
<1>7. Pairing' BY <1>1, <1>4 DEF IInv, Pairing
<1>8. NamesInOrder' BY <1>1, <1>4 DEF IInv, NamesInOrder, InOrder
<1>9. Posts' /\ Armed' BY <1>1, <1>4 DEF IInv, Posts, Armed
<1>10. Waits' BY <1>1, <1>4 DEF IInv, Waits, DstPrecondition
<1>11. Fired'
  <2>1. \A k \in Op : Ack(k) \in fired => \A g \in 1 .. k - 1 : Ack(g) \in fired
    BY DEF IInv, Fired
  <2>2. \A a \in fired' : after'[a] \subseteq fired' BY <1>1 DEF IInv, Fired
  <2>3. \A k \in Op : Ack(k) \in fired' => \A g \in 1 .. k - 1 : Ack(g) \in fired'
    BY <1>1, <1>2, <2>1
  <2> QED BY <2>2, <2>3 DEF Fired
<1>12. Order'
  <2>1. ASSUME remote, NEW k \in Op, CopyEv(k) \in fired' PROVE copyTo[k] <= k
    <3>1. CASE CopyEv(k) \in fired BY <2>1, <3>1 DEF IInv, Order
    <3>2. CASE CopyEv(k) = e BY <1>1, <2>1, <3>2, CopyNotLater
    <3> QED BY <1>1, <2>1, <3>1, <3>2
  <2>2. ASSUME remote, NEW k \in Op, Ack(k) \in fired' PROVE copyTo[k] = k
    <3>1. CASE Ack(k) \in fired BY <2>2, <3>1 DEF IInv, Order
    <3>2. CASE Ack(k) = e BY <1>1, <1>2, <2>2, <3>2, AckInOrder
    <3> QED BY <1>1, <2>2, <3>1, <3>2
  <2>3. ASSUME InOrder, NEW k \in Op, CopyEv(k) \in fired'
        PROVE  \A i \in 1 .. k - 1 : ReceivedDone(i)
    <3>1. CASE CopyEv(k) \in fired BY <2>3, <3>1 DEF IInv, Order
    <3>2. CASE CopyEv(k) = e
      <4>1. k # 1 => k - 1 \in Op /\ ReceivedDone(k - 1)
        BY <1>1, <2>3, <3>2, CopyAfterPrevious
      <4>2. k # 1 => CopyEv(k - 1) \in fired BY <4>1, ReceivedAfterCopy
      <4>3. k # 1 => \A i \in 1 .. (k - 1) - 1 : ReceivedDone(i)
        BY <2>3, <4>1, <4>2 DEF IInv, Order
      <4>4. \A i \in 1 .. k - 1 : k # 1 /\ (i = k - 1 \/ i \in 1 .. (k - 1) - 1)
        BY Domains
      <4> QED BY <4>1, <4>3, <4>4
    <3> QED BY <1>1, <2>3, <3>1, <3>2
  <2>4. \A k : ReceivedDone(k) => ReceivedDone(k)' BY <1>1 DEF ReceivedDone
  <2>5. InOrder' <=> InOrder BY <1>1 DEF InOrder
  <2>6. remote' = remote /\ copyTo' = copyTo BY <1>1
  <2> QED BY <2>1, <2>2, <2>3, <2>4, <2>5, <2>6 DEF Order
<1> QED
  BY <1>3, <1>5, <1>6, <1>7, <1>8, <1>9, <1>10, <1>11, <1>12 DEF IInv

-----------------------------------------------------------------------------
(***************************************************************************)
(* The theorems.                                                           *)
(***************************************************************************)
\* The invariant holds initially.
LEMMA InitInv == Init => IInv
<1> SUFFICES ASSUME Init PROVE IInv OBVIOUS
<1>1. /\ mgr["src"] = [ready |-> 0, ack |-> 0, psrc |-> <<>>, pdst |-> <<>>]
      /\ mgr["tgt"] = [ready |-> 0, ack |-> 0, psrc |-> <<>>, pdst |-> <<>>]
      /\ net["src"] = <<>> /\ net["tgt"] = <<>> /\ sIssued = 0 /\ tIssued = 0
  BY Domains DEF Init, NoBarrier
<1>2. /\ SAck = 0 /\ TAck = 0 /\ Sends = <<>> /\ Recvs = <<>> /\ Known = <<>>
      /\ mgr["tgt"].psrc = <<>> /\ mgr["tgt"].ready = 0 /\ Mail = <<>> /\ Acks = <<>>
  BY <1>1 DEF SAck, TAck, Sends, Recvs, Known, Mail, Acks
<1>3. NSends = 0 /\ NRecvs = 0 /\ NMail = 0 BY <1>2 DEF NSends, NRecvs, NMail
<1>4. Matched = 0 BY <1>1, <1>3 DEF Matched
<1>5. /\ armed = {} /\ fired = {} /\ 1 .. 0 = {} /\ \A k \in Op : copyTo[k] = 0 /\ ~(k <= 0)
  BY Domains DEF Init
<1>6. TypeOK
  <2>1. [ready |-> 0, ack |-> 0, psrc |-> <<>>, pdst |-> <<>>] \in Manager BY DEF Manager
  <2>2. <<>> \in Seq(Name) OBVIOUS
  <2> QED BY <2>1, <2>2, NOpsAssumption DEF Init, TypeOK, NoBarrier
<1>7. SourceLists BY <1>1, <1>2, <1>3, <1>4, <1>5 DEF SourceLists
<1>8. TargetLists
  <2>1. Len(Known) = 0 BY <1>2
  <2> QED BY <1>1, <1>2, <1>5, <2>1 DEF TargetLists
<1>9. Messages BY <1>1, <1>2, <1>3, <1>5 DEF Messages
<1>10. Pairing BY <1>1, <1>3, <1>4, <1>5 DEF Pairing
<1>11. NamesInOrder BY <1>1, <1>3, <1>4, <1>5 DEF NamesInOrder
<1>12. Posts BY <1>1, <1>5 DEF Posts
<1>13. Armed BY <1>1, <1>4, <1>5 DEF Armed
<1>14. Waits BY <1>5 DEF Waits
<1>15. Fired /\ Order BY <1>5 DEF Fired, Order
<1> QED BY <1>6, <1>7, <1>8, <1>9, <1>10, <1>11, <1>12, <1>13, <1>14, <1>15 DEF IInv

\* Every step keeps the invariant.
LEMMA StepInv == IInv /\ [Next]_vars => IInv'
<1> SUFFICES ASSUME IInv, [Next]_vars PROVE IInv' OBVIOUS
<1>1. ASSUME NEW s \in Op, FromLocalSource(s) PROVE IInv'
  BY <1>1, SendWaits, SendPairs
<1>2. ASSUME NEW t \in Op, ToLocalTarget(t) PROVE IInv'
  <2>1. CASE remote BY <1>2, <2>1, ReceiveRemote
  <2>2. CASE ~remote BY <1>2, <2>2, ReceivePairs, ReceiveWaits
  <2> QED BY <2>1, <2>2
<1>3. ASSUME NEW i, ReceiveInstance(i) PROVE IInv'
  BY <1>3, NameKept, NamePairs
<1>4. ASSUME NEW i, ReceiveBarrier(i) PROVE IInv'
  BY <1>4, BarrierNamed
<1>5. ASSUME NEW e, Fire(e) PROVE IInv'
  BY <1>5, FireKeeps
<1>6. CASE UNCHANGED vars
  <2>1. /\ UNCHANGED <<remote, sIssued, tIssued, mgr, net, spost, tpost, copyTo>>
        /\ UNCHANGED <<armed, after, fired>>
    BY <1>6 DEF vars
  <2>2. /\ Sends' = Sends /\ Recvs' = Recvs /\ Known' = Known /\ Mail' = Mail /\ Acks' = Acks
        /\ NSends' = NSends /\ NRecvs' = NRecvs /\ NMail' = NMail /\ Matched' = Matched
        /\ SAck' = SAck /\ TAck' = TAck
    BY <2>1 DEF Sends, Recvs, Known, Mail, Acks, NSends, NRecvs, NMail, Matched, SAck, TAck
  <2>3. TypeOK' /\ Fired' BY <2>1 DEF IInv, TypeOK, Fired
  <2>4. SourceLists' BY <2>1, <2>2 DEF IInv, SourceLists, DstPrecondition
  <2>5. TargetLists' /\ Messages' BY <2>1, <2>2 DEF IInv, TargetLists, Messages
  <2>6. Pairing' BY <2>1, <2>2 DEF IInv, Pairing
  <2>7. NamesInOrder' BY <2>1, <2>2 DEF IInv, NamesInOrder, InOrder
  <2>8. Posts' /\ Armed' BY <2>1, <2>2 DEF IInv, Posts, Armed
  <2>9. Waits' BY <2>1, <2>2 DEF IInv, Waits, DstPrecondition
  <2>10. Order' BY <2>1 DEF IInv, Order, InOrder, ReceivedDone
  <2> QED BY <2>3, <2>4, <2>5, <2>6, <2>7, <2>8, <2>9, <2>10 DEF IInv
<1>7. CASE Next BY <1>1, <1>2, <1>3, <1>4, <1>5, <1>6, <1>7 DEF Next, Issue, ReceiveNames, Terminated
<1> QED BY <1>6, <1>7

\* The invariant of the rendezvous holds in every reachable state, whatever the number
\* of reshards and whether or not the name messages arrive in order.
THEOREM IInvAlways == Spec => []IInv
BY InitInv, StepInv, PTL DEF Spec

\* Every variable stays in its domain.
THEOREM TypeCorrect == Spec => []TypeOK
<1>1. IInv => TypeOK BY DEF IInv
<1> QED BY <1>1, IInvAlways, PTL

\* The assertions of the managers hold and their lists agree, for any number of reshards.
THEOREM ManagerAlwaysConsistent == Spec => []ManagerConsistent
<1>1. IInv => ManagerConsistent
  <2> SUFFICES ASSUME IInv PROVE ManagerConsistent OBVIOUS
  <2>1. /\ TypeOK /\ sIssued \in Nat /\ NSends \in Nat /\ NRecvs \in Nat /\ Matched \in Nat
        /\ Matched + NSends = sIssued
    BY Counts
  <2>2. Sends \in Seq(Pending) /\ Recvs \in Seq(Pending) BY <2>1, QueueType
  <2>3. (NSends = 0 => Sends = <<>>) /\ (NRecvs = 0 => Recvs = <<>>)
    BY <2>2 DEF NSends, NRecvs
  <2>4. Sends = <<>> \/ Recvs = <<>> BY <2>3 DEF IInv, SourceLists
  <2>5. \A n \in Node : mgr[n].psrc = <<>> \/ mgr[n].pdst = <<>>
    BY <2>4, Domains DEF IInv, TargetLists, Sends, Recvs
  <2>6. remote /\ Sends # <<>> => SAck # 0
    <3> SUFFICES ASSUME remote, Sends # <<>> PROVE SAck # 0 OBVIOUS
    <3>1. sIssued > 0 BY <2>1, <2>3
    <3>2. SAck = Matched + 1 BY <3>1 DEF IInv, SourceLists
    <3> QED BY <2>1, <3>2
  <2>7. ~remote => SAck = 0 BY DEF IInv, SourceLists
  <2>8. remote /\ Known # <<>> => TAck = 0 BY DEF IInv, TargetLists
  <2> QED
    BY <2>5, <2>6, <2>7, <2>8 DEF ManagerConsistent, Src, Tgt, NoBarrier, SAck, TAck, Sends, Known
<1> QED BY <1>1, IInvAlways, PTL

\* The events that the two sides are given trigger only after the copy between them, for
\* any number of reshards and any order of the name messages.
THEOREM DoneAlwaysMeansCopied == Spec => []DoneMeansCopied
<1>1. IInv => DoneMeansCopied
  <2> SUFFICES ASSUME IInv, NEW k \in Op
               PROVE  /\ SentDone(k) => Copied(k)
                      /\ ReceivedDone(k) => Copied(k) /\ copyTo[k] = k
    BY DEF DoneMeansCopied
  <2>1. fired \subseteq armed /\ \A e \in fired : after[e] \subseteq fired
    BY DEF IInv, TypeOK, Fired
  <2>2. SentDone(k) => Copied(k)
    <3>1. SentDone(k) => spost[k] \in {{SUser(k)}, {CopyEv(k)}} /\ spost[k] \subseteq fired
      BY DEF IInv, Posts, SentDone
    <3>2. SUser(k) \in fired => CopyEv(k) \in fired BY <2>1 DEF IInv, Waits
    <3> QED BY <3>1, <3>2 DEF Copied
  <2>3. ASSUME ReceivedDone(k) PROVE Copied(k) /\ copyTo[k] = k
    <3>1. CopyEv(k) \in fired /\ (remote => Ack(k) \in fired)
      BY <2>3, ReceivedAfterCopy
    <3>2. CASE remote BY <3>1, <3>2 DEF IInv, Order, Copied
    <3>3. CASE ~remote
      <4>1. InOrder => copyTo[k] = k BY <2>1, <3>1, CopyAfterPrevious
      <4> QED BY <3>1, <3>3, <4>1 DEF InOrder, Copied
    <3> QED BY <3>2, <3>3
  <2> QED BY <2>2, <2>3
<1> QED BY <1>1, IInvAlways, PTL

\* If the name messages are handled in order, the copies of a key happen in the order of
\* its operations, each between arrays that are ready.
THEOREM CopiesAlwaysInOrder ==
  ASSUME Fifo
  PROVE  Spec => []CopiesInOrder
<1>1. IInv => CopiesInOrder
  <2> SUFFICES ASSUME IInv, NEW k \in Op, Copied(k)
               PROVE  /\ copyTo[k] = k
                      /\ SReady(k) \in fired /\ TReady(k) \in fired
                      /\ \A i \in 1 .. k - 1 : ReceivedDone(i)
    BY DEF CopiesInOrder
  <2>1. CopyEv(k) \in fired BY DEF Copied
  <2>2. CopyEv(k) \in armed /\ after[CopyEv(k)] \subseteq fired
    BY <2>1 DEF IInv, TypeOK, Fired
  <2>3. InOrder BY DEF InOrder
  <2>4. copyTo[k] = k /\ SReady(k) \in fired /\ TReady(k) \in fired
    BY <2>2, <2>3, CopyAfterPrevious
  <2>5. \A i \in 1 .. k - 1 : ReceivedDone(i) BY <2>1, <2>3 DEF IInv, Order
  <2> QED BY <2>4, <2>5
<1> QED BY <1>1, IInvAlways, PTL

-----------------------------------------------------------------------------
(***************************************************************************)
(* The refinement.                                                         *)
(***************************************************************************)
\* The abstract state: the arrays that are ready, the copies done, the operations whose
\* side knows of it.
SR == {k \in Op : SReady(k) \in fired}
TR == {k \in Op : TReady(k) \in fired}
CP == Cardinality({k \in Op : Copied(k)})
SD == {k \in Op : SentDone(k)}
TD == {k \in Op : ReceivedDone(k)}

\* The steps of the abstract rendezvous, in the terms of this one.
LEMMA AbstractSteps ==
  /\ Abstract!Init <=> /\ sIssued = 0 /\ tIssued = 0 /\ CP = 0
                       /\ SR = {} /\ TR = {} /\ SD = {} /\ TD = {}
  /\ Abstract!vars = <<sIssued, tIssued, SR, TR, CP, SD, TD>>
  /\ Abstract!Send <=> /\ sIssued < NOps /\ sIssued' = sIssued + 1
                       /\ UNCHANGED <<tIssued, SR, TR, CP, SD, TD>>
  /\ Abstract!Receive <=> /\ tIssued < NOps /\ tIssued' = tIssued + 1
                          /\ UNCHANGED <<sIssued, SR, TR, CP, SD, TD>>
  /\ Abstract!Copy <=> /\ CP + 1 <= sIssued /\ CP + 1 <= tIssued
                       /\ CP + 1 \in SR /\ CP + 1 \in TR
                       /\ 1 .. CP \subseteq TD /\ CP' = CP + 1
                       /\ SD' \in {SD, SD \cup {CP + 1}}
                       /\ TD' \in {TD, TD \cup {CP + 1}}
                       /\ UNCHANGED <<sIssued, tIssued, SR, TR>>
  /\ \A k : /\ Abstract!SourceReady(k) <=> /\ k <= sIssued /\ k \notin SR /\ SR' = SR \cup {k}
                                           /\ UNCHANGED <<sIssued, tIssued, TR, CP, SD, TD>>
            /\ Abstract!TargetReady(k) <=> /\ k <= tIssued /\ k \notin TR /\ TR' = TR \cup {k}
                                           /\ UNCHANGED <<sIssued, tIssued, SR, CP, SD, TD>>
            /\ Abstract!SourceDone(k) <=> /\ k <= CP /\ k \notin SD /\ SD' = SD \cup {k}
                                          /\ UNCHANGED <<sIssued, tIssued, SR, TR, CP, TD>>
            /\ Abstract!TargetDone(k) <=> /\ k <= CP /\ k \notin TD /\ TD' = TD \cup {k}
                                          /\ UNCHANGED <<sIssued, tIssued, SR, TR, CP, SD>>
  /\ Abstract!Next <=> \/ Abstract!Send \/ Abstract!Receive \/ Abstract!Copy
                       \/ \E k \in Op : \/ Abstract!SourceReady(k) \/ Abstract!TargetReady(k)
                                        \/ Abstract!SourceDone(k) \/ Abstract!TargetDone(k)
<1> USE DEF SR, TR, CP, SD, TD
<1>1. /\ Abstract!Init <=> /\ sIssued = 0 /\ tIssued = 0 /\ CP = 0
                           /\ SR = {} /\ TR = {} /\ SD = {} /\ TD = {}
      /\ Abstract!vars = <<sIssued, tIssued, SR, TR, CP, SD, TD>>
  BY DEF Abstract!Init, Abstract!vars
<1>2. /\ Abstract!Send <=> /\ sIssued < NOps /\ sIssued' = sIssued + 1
                           /\ UNCHANGED <<tIssued, SR, TR, CP, SD, TD>>
      /\ Abstract!Receive <=> /\ tIssued < NOps /\ tIssued' = tIssued + 1
                              /\ UNCHANGED <<sIssued, SR, TR, CP, SD, TD>>
  BY DEF Abstract!Send, Abstract!Receive
<1>3. Abstract!Copy <=> /\ CP + 1 <= sIssued /\ CP + 1 <= tIssued
                        /\ CP + 1 \in SR /\ CP + 1 \in TR
                        /\ 1 .. CP \subseteq TD /\ CP' = CP + 1
                        /\ SD' \in {SD, SD \cup {CP + 1}}
                        /\ TD' \in {TD, TD \cup {CP + 1}}
                        /\ UNCHANGED <<sIssued, tIssued, SR, TR>>
  BY DEF Abstract!Copy
<1>4. \A k : /\ Abstract!SourceReady(k) <=> /\ k <= sIssued /\ k \notin SR /\ SR' = SR \cup {k}
                                            /\ UNCHANGED <<sIssued, tIssued, TR, CP, SD, TD>>
             /\ Abstract!TargetReady(k) <=> /\ k <= tIssued /\ k \notin TR /\ TR' = TR \cup {k}
                                            /\ UNCHANGED <<sIssued, tIssued, SR, CP, SD, TD>>
  BY DEF Abstract!SourceReady, Abstract!TargetReady
<1>5. \A k : /\ Abstract!SourceDone(k) <=> /\ k <= CP /\ k \notin SD /\ SD' = SD \cup {k}
                                           /\ UNCHANGED <<sIssued, tIssued, SR, TR, CP, TD>>
             /\ Abstract!TargetDone(k) <=> /\ k <= CP /\ k \notin TD /\ TD' = TD \cup {k}
                                           /\ UNCHANGED <<sIssued, tIssued, SR, TR, CP, SD>>
  BY DEF Abstract!SourceDone, Abstract!TargetDone
<1>6. Abstract!Next <=> \/ Abstract!Send \/ Abstract!Receive \/ Abstract!Copy
                        \/ \E k \in Op : \/ Abstract!SourceReady(k) \/ Abstract!TargetReady(k)
                                         \/ Abstract!SourceDone(k) \/ Abstract!TargetDone(k)
  BY DEF Abstract!Next, Abstract!Op, Op
<1> QED BY <1>1, <1>2, <1>3, <1>4, <1>5, <1>6

\* The copies done are the first ones.
Prefix == \E c \in 0 .. NOps : \A k \in Op : Copied(k) <=> k <= c

\* How many copies are done, then.
LEMMA CopiedCount ==
  ASSUME NEW c \in 0 .. NOps, \A k \in Op : Copied(k) <=> k <= c
  PROVE  CP = c
<1>1. c \in Nat /\ c <= NOps /\ NOps \in Nat BY Domains
<1>2. {k \in Op : Copied(k)} = 1 .. c BY <1>1 DEF Op
<1>3. Cardinality(1 .. c) = c BY <1>1, FS_Interval
<1> QED BY <1>2, <1>3 DEF CP

\* What the two sides see of an event that triggers.
LEMMA FireSeen ==
  ASSUME IInv, NEW e, Fire(e)
  PROVE  /\ SR' = SR \cup {k \in Op : SReady(k) = e}
         /\ TR' = TR \cup {k \in Op : TReady(k) = e}
         /\ SD' = SD \cup {k \in Op : k <= sIssued /\ spost[k] = {e}}
         /\ TD' = TD \cup {k \in Op : k <= tIssued /\ tpost[k] = {e}}
         /\ \A k \in Op : Copied(k)' <=> Copied(k) \/ CopyEv(k) = e
         /\ sIssued' = sIssued /\ tIssued' = tIssued
<1>1. /\ fired' = fired \cup {e}
      /\ UNCHANGED <<sIssued, tIssued, spost, tpost>>
  BY DEF Fire
<1>2. \A k \in Op : /\ k <= sIssued => \E x : spost[k] = {x}
                    /\ k <= tIssued => \E x : tpost[k] = {x}
  <2> SUFFICES ASSUME NEW k \in Op
               PROVE  /\ k <= sIssued => \E x : spost[k] = {x}
                      /\ k <= tIssued => \E x : tpost[k] = {x}
    OBVIOUS
  <2>1. k <= sIssued => spost[k] = {SUser(k)} \/ spost[k] = {CopyEv(k)} BY DEF IInv, Posts
  <2>2. k <= tIssued => tpost[k] = {TUser(k)} \/ tpost[k] = {Ack(k)} \/ tpost[k] = {CopyEv(k)}
    BY DEF IInv, Posts
  <2> QED BY <2>1, <2>2
<1>3. \A S : (\E x : S = {x}) => (S \subseteq fired \cup {e} <=> S \subseteq fired \/ S = {e})
  OBVIOUS
<1>4. \A k \in Op : /\ SentDone(k)' <=> SentDone(k) \/ (k <= sIssued /\ spost[k] = {e})
                    /\ ReceivedDone(k)' <=> ReceivedDone(k) \/ (k <= tIssued /\ tpost[k] = {e})
  BY <1>1, <1>2, <1>3 DEF SentDone, ReceivedDone
<1>5. SD' = SD \cup {k \in Op : k <= sIssued /\ spost[k] = {e}} BY <1>4 DEF SD
<1>6. TD' = TD \cup {k \in Op : k <= tIssued /\ tpost[k] = {e}} BY <1>4 DEF TD
<1>7. /\ SR' = SR \cup {k \in Op : SReady(k) = e}
      /\ TR' = TR \cup {k \in Op : TReady(k) = e}
  BY <1>1 DEF SR, TR
<1>8. \A k \in Op : Copied(k)' <=> Copied(k) \/ CopyEv(k) = e BY <1>1 DEF Copied
<1> QED BY <1>1, <1>5, <1>6, <1>7, <1>8

\* An event other than a copy is seen by at most one side, once the copy it stands for is
\* done.
LEMMA FireOther ==
  ASSUME IInv, Prefix, NEW e, Fire(e), \A k \in Op : CopyEv(k) # e
  PROVE  Prefix' /\ (Abstract!Next \/ UNCHANGED Abstract!vars)
<1> DEFINE NewS == {k \in Op : k <= sIssued /\ spost[k] = {e}}
           NewT == {k \in Op : k <= tIssued /\ tpost[k] = {e}}
<1>1. /\ SR' = SR \cup {k \in Op : SReady(k) = e}
      /\ TR' = TR \cup {k \in Op : TReady(k) = e}
      /\ SD' = SD \cup NewS /\ TD' = TD \cup NewT
      /\ \A k \in Op : Copied(k)' <=> Copied(k)
      /\ sIssued' = sIssued /\ tIssued' = tIssued
  BY FireSeen
<1>2. PICK c \in 0 .. NOps : \A k \in Op : Copied(k) <=> k <= c BY DEF Prefix
<1>3. Prefix' BY <1>1, <1>2 DEF Prefix
<1>4. CP' = CP /\ CP = c
  <2>1. {k \in Op : Copied(k)}' = {k \in Op : Copied(k)} BY <1>1
  <2>2. CP' = CP BY <2>1 DEF CP
  <2> QED BY <1>2, <2>2, CopiedCount
<1>5. /\ e \in armed \ fired /\ after[e] \subseteq fired /\ fired \subseteq armed /\ e \in Event
      /\ \A a \in fired : after[a] \subseteq fired
  BY DEF Fire, IInv, TypeOK, Fired
<1>6. PICK k \in Op :
        e \in {SReady(k), TReady(k), SUser(k), TUser(k), CopyEv(k), Ready(k), Ack(k)}
  BY <1>5, EventType
<1>7. \A j \in NewS : SUser(j) = e
  <2> SUFFICES ASSUME NEW j \in NewS PROVE SUser(j) = e OBVIOUS
  <2>1. spost[j] = {SUser(j)} \/ spost[j] = {CopyEv(j)} BY DEF IInv, Posts
  <2> QED BY <2>1
<1>8. \A j \in NewT : TUser(j) = e \/ Ack(j) = e
  <2> SUFFICES ASSUME NEW j \in NewT PROVE TUser(j) = e \/ Ack(j) = e OBVIOUS
  <2>1. tpost[j] = {TUser(j)} \/ tpost[j] = {Ack(j)} \/ tpost[j] = {CopyEv(j)}
    BY DEF IInv, Posts
  <2> QED BY <2>1
<1>9. NewS \subseteq Op /\ NewT \subseteq Op OBVIOUS
<1> HIDE DEF NewS, NewT
<1>10. CASE e = SReady(k)
  <2>1. \A j \in Op : /\ SReady(j) = e <=> j = k
                      /\ TReady(j) # e /\ SUser(j) # e /\ TUser(j) # e /\ Ack(j) # e
    BY <1>10, EventFields
  <2>2. k <= sIssued /\ k \notin SR BY <1>5, <1>10 DEF IInv, Armed, SR
  <2>3. {j \in Op : SReady(j) = e} = {k} /\ {j \in Op : TReady(j) = e} = {} BY <2>1
  <2>4. NewS = {} /\ NewT = {} BY <1>7, <1>8, <1>9, <2>1
  <2>5. SR' = SR \cup {k} /\ TR' = TR /\ SD' = SD /\ TD' = TD BY <1>1, <2>3, <2>4
  <2>6. Abstract!SourceReady(k) BY <1>1, <1>4, <2>2, <2>5, AbstractSteps
  <2> QED BY <1>3, <2>6, AbstractSteps
<1>11. CASE e = TReady(k)
  <2>1. \A j \in Op : /\ TReady(j) = e <=> j = k
                      /\ SReady(j) # e /\ SUser(j) # e /\ TUser(j) # e /\ Ack(j) # e
    BY <1>11, EventFields
  <2>2. k <= tIssued /\ k \notin TR BY <1>5, <1>11 DEF IInv, Armed, TR
  <2>3. {j \in Op : TReady(j) = e} = {k} /\ {j \in Op : SReady(j) = e} = {} BY <2>1
  <2>4. NewS = {} /\ NewT = {} BY <1>7, <1>8, <1>9, <2>1
  <2>5. TR' = TR \cup {k} /\ SR' = SR /\ SD' = SD /\ TD' = TD BY <1>1, <2>3, <2>4
  <2>6. Abstract!TargetReady(k) BY <1>1, <1>4, <2>2, <2>5, AbstractSteps
  <2> QED BY <1>3, <2>6, AbstractSteps
<1>12. CASE e \in {SUser(k), TUser(k), Ack(k), Ready(k)}
  <2>1. \A j \in Op : /\ SReady(j) # e /\ TReady(j) # e
                      /\ SUser(j) = e => j = k /\ e = SUser(k)
                      /\ TUser(j) = e => j = k /\ e = TUser(k)
                      /\ Ack(j) = e => j = k /\ e = Ack(k)
    BY <1>12, EventFields
  <2>2. {j \in Op : TReady(j) = e} = {} /\ {j \in Op : SReady(j) = e} = {} BY <2>1
  <2>3. SR' = SR /\ TR' = TR BY <1>1, <2>2
  <2>4. NewS \subseteq {k} /\ NewT \subseteq {k} /\ (NewS = {} \/ NewT = {})
    <3>1. SUser(k) # TUser(k) /\ SUser(k) # Ack(k) BY EventFields
    <3> QED BY <1>7, <1>8, <1>9, <2>1, <3>1
  <2>5. NewS # {} \/ NewT # {} => k <= c
    <3>1. NewS # {} \/ NewT # {} => e \in {SUser(k), TUser(k), Ack(k)}
      BY <1>7, <1>8, <1>9, <2>1
    <3>2. e \in {SUser(k), Ack(k)} => CopyEv(k) \in fired BY <1>5 DEF IInv, Waits
    <3>3. e = TUser(k) => CopyEv(k) \in fired
      <4>1. CASE remote
        <5>1. e = TUser(k) => Ack(k) \in fired BY <1>5, <4>1 DEF IInv, Waits
        <5> QED BY <1>5, <5>1 DEF IInv, Waits
      <4>2. CASE ~remote BY <1>5, <4>2 DEF IInv, Waits
      <4> QED BY <4>1, <4>2
    <3> QED BY <1>2, <3>1, <3>2, <3>3 DEF Copied
  <2>6. CASE SD' = SD /\ TD' = TD
    <3>1. UNCHANGED <<sIssued, tIssued, SR, TR, CP, SD, TD>> BY <1>1, <1>4, <2>3, <2>6
    <3>2. Abstract!vars' = <<sIssued, tIssued, SR, TR, CP, SD, TD>>'
      BY DEF Abstract!vars, SR, TR, CP, SD, TD
    <3> QED BY <1>3, <3>1, <3>2, AbstractSteps
  <2>7. CASE SD' # SD
    <3>1. k \notin SD /\ SD' = SD \cup {k} /\ NewT = {} /\ k <= c BY <1>1, <2>4, <2>5, <2>7
    <3>2. TD' = TD BY <1>1, <3>1
    <3>3. Abstract!SourceDone(k) BY <1>1, <1>4, <2>3, <3>1, <3>2, AbstractSteps
    <3> QED BY <1>3, <3>3, AbstractSteps
  <2>8. CASE TD' # TD
    <3>1. k \notin TD /\ TD' = TD \cup {k} /\ NewS = {} /\ k <= c BY <1>1, <2>4, <2>5, <2>8
    <3>2. SD' = SD BY <1>1, <3>1
    <3>3. Abstract!TargetDone(k) BY <1>1, <1>4, <2>3, <3>1, <3>2, AbstractSteps
    <3> QED BY <1>3, <3>3, AbstractSteps
  <2> QED BY <2>6, <2>7, <2>8
<1> QED BY <1>6, <1>10, <1>11, <1>12

\* A copy that triggers is the next one.
LEMMA FireCopy ==
  ASSUME Fifo, IInv, Prefix, NEW k \in Op, Fire(CopyEv(k))
  PROVE  Prefix' /\ Abstract!Next
<1> DEFINE NewS == {j \in Op : j <= sIssued /\ spost[j] = {CopyEv(k)}}
           NewT == {j \in Op : j <= tIssued /\ tpost[j] = {CopyEv(k)}}
<1>1. /\ SR' = SR \cup {j \in Op : SReady(j) = CopyEv(k)}
      /\ TR' = TR \cup {j \in Op : TReady(j) = CopyEv(k)}
      /\ SD' = SD \cup NewS /\ TD' = TD \cup NewT
      /\ \A j \in Op : Copied(j)' <=> Copied(j) \/ CopyEv(j) = CopyEv(k)
      /\ sIssued' = sIssued /\ tIssued' = tIssued
  BY FireSeen
<1>2. PICK c \in 0 .. NOps : \A j \in Op : Copied(j) <=> j <= c BY DEF Prefix
<1>3. CP = c BY <1>2, CopiedCount
<1>4. CopyEv(k) \in armed \ fired /\ after[CopyEv(k)] \subseteq fired BY DEF Fire
<1>5. InOrder BY DEF InOrder
<1>6. /\ k <= Matched /\ k <= tIssued /\ SReady(k) \in fired /\ TReady(k) \in fired
      /\ k # 1 => k - 1 \in Op /\ ReceivedDone(k - 1)
  BY <1>4, <1>5, CopyAfterPrevious
<1>7. c \in Nat /\ k \in Nat /\ k >= 1 /\ k <= NOps /\ NOps \in Nat BY <1>2, Domains
<1>8. k = c + 1
  <2>1. ~(k <= c) BY <1>2, <1>4 DEF Copied
  <2>2. k # 1 => Copied(k - 1) BY <1>6, ReceivedAfterCopy DEF Copied
  <2>3. k # 1 => k - 1 <= c BY <1>2, <1>6, <2>2
  <2> QED BY <1>7, <2>1, <2>3
<1>9. k <= sIssued BY <1>6, <1>7, Counts
<1>10. \A j \in 1 .. c : j \in TD
  <2>1. \A j \in 1 .. c : j \in Op /\ k # 1 /\ (j = k - 1 \/ j \in 1 .. (k - 1) - 1)
    BY <1>7, <1>8, Domains
  <2>2. k # 1 => \A j \in 1 .. (k - 1) - 1 : ReceivedDone(j)
    <3>1. k # 1 => CopyEv(k - 1) \in fired BY <1>6, ReceivedAfterCopy
    <3> QED BY <1>5, <1>6, <3>1 DEF IInv, Order
  <2> QED BY <1>6, <2>1, <2>2 DEF TD
<1>11. \A j \in Op : Copied(j)' <=> j <= c + 1
  <2>1. \A j \in Op : CopyEv(j) = CopyEv(k) <=> j = k BY EventFields
  <2>2. \A j \in Op : j <= c + 1 <=> j <= c \/ j = k BY <1>7, <1>8, Domains
  <2> QED BY <1>1, <1>2, <2>1, <2>2
<1>12. Prefix'
  <2>1. c + 1 \in 0 .. NOps BY <1>7, <1>8
  <2> QED BY <1>11, <2>1 DEF Prefix
<1>13. CP' = c + 1
  <2>1. {j \in Op : Copied(j)}' = 1 .. c + 1
    <3>1. \A j : j \in Op /\ j <= c + 1 <=> j \in 1 .. c + 1 BY <1>7, <1>8 DEF Op
    <3> QED BY <1>11, <3>1
  <2>2. Cardinality(1 .. c + 1) = c + 1 BY <1>7, FS_Interval
  <2> QED BY <2>1, <2>2 DEF CP
<1>14. SR' = SR /\ TR' = TR
  <2>1. \A j \in Op : SReady(j) # CopyEv(k) /\ TReady(j) # CopyEv(k) BY EventFields
  <2>2. {j \in Op : SReady(j) = CopyEv(k)} = {} /\ {j \in Op : TReady(j) = CopyEv(k)} = {}
    BY <2>1
  <2> QED BY <1>1, <2>2
<1>15. NewS \subseteq {k} /\ NewT \subseteq {k}
  <2>1. \A j \in Op : /\ CopyEv(j) = CopyEv(k) => j = k
                      /\ SUser(j) # CopyEv(k) /\ TUser(j) # CopyEv(k) /\ Ack(j) # CopyEv(k)
    BY EventFields
  <2>2. ASSUME NEW j \in NewS PROVE j = k
    <3>1. spost[j] = {SUser(j)} \/ spost[j] = {CopyEv(j)} BY DEF IInv, Posts
    <3> QED BY <2>1, <3>1
  <2>3. ASSUME NEW j \in NewT PROVE j = k
    <3>1. tpost[j] = {TUser(j)} \/ tpost[j] = {Ack(j)} \/ tpost[j] = {CopyEv(j)}
      BY DEF IInv, Posts
    <3> QED BY <2>1, <3>1
  <2> QED BY <2>2, <2>3
<1>16. SD' \in {SD, SD \cup {k}} /\ TD' \in {TD, TD \cup {k}}
  <2> HIDE DEF NewS, NewT
  <2>1. (NewS = {} \/ NewS = {k}) /\ (NewT = {} \/ NewT = {k}) BY <1>15
  <2> QED BY <1>1, <2>1
<1>17. k \in SR /\ k \in TR BY <1>6 DEF SR, TR
<1>18. Abstract!Copy
  BY <1>1, <1>3, <1>6, <1>8, <1>9, <1>10, <1>13, <1>14, <1>16, <1>17, AbstractSteps
<1> QED BY <1>12, <1>18, AbstractSteps

\* Issuing an operation is all that the other steps of the protocol show.
LEMMA IssueSeen ==
  ASSUME IInv, IInv', Prefix, fired' = fired,
         sIssued' = sIssued \/ (sIssued' = sIssued + 1 /\ tIssued' = tIssued),
         tIssued' = tIssued \/ (tIssued' = tIssued + 1 /\ sIssued' = sIssued),
         Fifo, remote' = remote,
         \A k \in Op : /\ k <= sIssued => spost'[k] = spost[k]
                       /\ k <= tIssued => tpost'[k] = tpost[k]
  PROVE  Prefix' /\ (Abstract!Next \/ UNCHANGED Abstract!vars)
<1>1. /\ sIssued \in Nat /\ tIssued \in Nat /\ Matched \in Nat /\ Matched <= sIssued
      /\ fired \subseteq armed /\ Matched <= tIssued
  <2>1. Matched + NRecvs + NMail = tIssued BY DEF IInv, NamesInOrder, InOrder
  <2> QED BY <2>1, Counts DEF TypeOK
<1>2. sIssued' <= NOps /\ tIssued' <= NOps /\ NOps \in Nat
  BY Domains DEF IInv, TypeOK
<1>3. Prefix' BY DEF Prefix, Copied
<1>4. SR' = SR /\ TR' = TR /\ CP' = CP BY DEF SR, TR, CP, Copied
<1>5. \A k \in Op : Copied(k) => k <= sIssued /\ k <= tIssued
  <2> SUFFICES ASSUME NEW k \in Op, Copied(k) PROVE k <= sIssued /\ k <= tIssued OBVIOUS
  <2>1. k <= Matched BY <1>1 DEF IInv, Armed, Copied
  <2> QED BY <1>1, <2>1, Domains
<1>6. \A k \in Op : SentDone(k)' => Copied(k)
  <2> SUFFICES ASSUME NEW k \in Op, SentDone(k)' PROVE Copied(k) OBVIOUS
  <2>1. spost'[k] = {SUser(k)} \/ spost'[k] = {CopyEv(k)} BY DEF IInv, Posts, SentDone
  <2>2. spost'[k] \subseteq fired BY DEF SentDone
  <2>3. SUser(k) \in fired => CopyEv(k) \in fired BY <1>1 DEF IInv, Waits, Fired
  <2> QED BY <2>1, <2>2, <2>3 DEF Copied
<1>7. \A k \in Op : ReceivedDone(k)' => Copied(k)
  <2> SUFFICES ASSUME NEW k \in Op, ReceivedDone(k)' PROVE Copied(k) OBVIOUS
  <2>1. tpost'[k] = {TUser(k)} \/ tpost'[k] = {CopyEv(k)} \/ tpost'[k] = {Ack(k)}
    BY DEF IInv, Posts, ReceivedDone
  <2>2. tpost'[k] \subseteq fired BY DEF ReceivedDone
  <2>3. Ack(k) \in fired => CopyEv(k) \in fired BY <1>1 DEF IInv, Waits, Fired
  <2>4. TUser(k) \in fired => CopyEv(k) \in fired
    <3>1. CASE remote
      <4>1. TUser(k) \in fired => Ack(k) \in fired BY <1>1, <3>1 DEF IInv, Waits, Fired
      <4> QED BY <2>3, <4>1
    <3>2. CASE ~remote BY <1>1, <3>2 DEF IInv, Waits, Fired
    <3> QED BY <3>1, <3>2
  <2> QED BY <2>1, <2>2, <2>3, <2>4 DEF Copied
<1>8. SD' = SD
  <2>1. \A k \in Op : SentDone(k)' <=> SentDone(k)
    <3> SUFFICES ASSUME NEW k \in Op PROVE SentDone(k)' <=> SentDone(k) OBVIOUS
    <3>1. SentDone(k)' => k <= sIssued BY <1>5, <1>6
    <3>2. k <= sIssued => k <= sIssued' BY <1>1, Domains
    <3> QED BY <3>1, <3>2 DEF SentDone
  <2> QED BY <2>1 DEF SD
<1>9. TD' = TD
  <2>1. \A k \in Op : ReceivedDone(k)' <=> ReceivedDone(k)
    <3> SUFFICES ASSUME NEW k \in Op PROVE ReceivedDone(k)' <=> ReceivedDone(k) OBVIOUS
    <3>1. ReceivedDone(k)' => k <= tIssued BY <1>5, <1>7
    <3>2. k <= tIssued => k <= tIssued' BY <1>1, Domains
    <3> QED BY <3>1, <3>2 DEF ReceivedDone
  <2> QED BY <2>1 DEF TD
<1>10. CASE sIssued' = sIssued + 1 /\ tIssued' = tIssued
  <2>1. Abstract!Send BY <1>1, <1>2, <1>4, <1>8, <1>9, <1>10, AbstractSteps
  <2> QED BY <1>3, <2>1, AbstractSteps
<1>11. CASE tIssued' = tIssued + 1 /\ sIssued' = sIssued
  <2>1. Abstract!Receive BY <1>1, <1>2, <1>4, <1>8, <1>9, <1>11, AbstractSteps
  <2> QED BY <1>3, <2>1, AbstractSteps
<1>12. CASE sIssued' = sIssued /\ tIssued' = tIssued
  <2>1. UNCHANGED <<sIssued, tIssued, SR, TR, CP, SD, TD>> BY <1>4, <1>8, <1>9, <1>12
  <2>2. Abstract!vars' = <<sIssued, tIssued, SR, TR, CP, SD, TD>>'
    BY DEF Abstract!vars, SR, TR, CP, SD, TD
  <2> QED BY <1>3, <2>1, <2>2, AbstractSteps
<1> QED BY <1>10, <1>11, <1>12

\* The protocol implements the abstract rendezvous for any number of reshards, if the name
\* messages are handled in order.
THEOREM ReshardImplementsRendezvous ==
  ASSUME Fifo
  PROVE  Spec => ImplementsRendezvous
<1>1. Init => Abstract!Init /\ Prefix
  <2> SUFFICES ASSUME Init PROVE Abstract!Init /\ Prefix OBVIOUS
  <2>1. fired = {} /\ sIssued = 0 /\ tIssued = 0 BY DEF Init
  <2>2. \A k \in Op : ~Copied(k) /\ ~(k <= 0) BY <2>1, Domains DEF Copied
  <2>3. 0 \in 0 .. NOps BY Domains
  <2>4. Prefix BY <2>2, <2>3 DEF Prefix
  <2>5. CP = 0 BY <2>2, <2>3, CopiedCount
  <2>6. \A k \in Op : ~SentDone(k) /\ ~ReceivedDone(k)
    BY <2>1, <2>2 DEF SentDone, ReceivedDone
  <2>7. SR = {} /\ TR = {} /\ SD = {} /\ TD = {} BY <2>1, <2>6 DEF SR, TR, SD, TD
  <2> QED BY <2>1, <2>4, <2>5, <2>7, AbstractSteps
<1>2. IInv /\ Prefix /\ [Next]_vars => Prefix' /\ [Abstract!Next]_Abstract!vars
  <2> SUFFICES ASSUME IInv, Prefix, [Next]_vars
               PROVE  Prefix' /\ (Abstract!Next \/ UNCHANGED Abstract!vars)
    OBVIOUS
  <2>1. IInv' BY StepInv
  <2>2. sIssued \in Nat /\ tIssued \in Nat BY Counts
  <2>3. ASSUME NEW s \in Op, FromLocalSource(s)
        PROVE  Prefix' /\ (Abstract!Next \/ UNCHANGED Abstract!vars)
    <3>1. /\ sIssued' = sIssued + 1 /\ s = sIssued + 1
          /\ UNCHANGED <<remote, tIssued, tpost, fired>>
      BY <2>3 DEF FromLocalSource
    <3>2. \E x : spost' = [spost EXCEPT ![s] = x] BY <2>3 DEF FromLocalSource
    <3>3. \A k \in Op : k <= sIssued => spost'[k] = spost[k]
      BY <2>2, <3>1, <3>2 DEF IInv, TypeOK
    <3> QED BY <2>1, <3>1, <3>3, IssueSeen
  <2>4. ASSUME NEW t \in Op, ToLocalTarget(t)
        PROVE  Prefix' /\ (Abstract!Next \/ UNCHANGED Abstract!vars)
    <3>1. /\ tIssued' = tIssued + 1 /\ t = tIssued + 1
          /\ UNCHANGED <<remote, sIssued, spost, fired>>
      BY <2>4 DEF ToLocalTarget
    <3>2. \E x : tpost' = [tpost EXCEPT ![t] = x] BY <2>4 DEF ToLocalTarget
    <3>3. \A k \in Op : k <= tIssued => tpost'[k] = tpost[k]
      BY <2>2, <3>1, <3>2 DEF IInv, TypeOK
    <3> QED BY <2>1, <3>1, <3>3, IssueSeen
  <2>5. ASSUME UNCHANGED <<remote, sIssued, tIssued, spost, tpost, fired>>
        PROVE  Prefix' /\ (Abstract!Next \/ UNCHANGED Abstract!vars)
    BY <2>1, <2>5, IssueSeen
  <2>6. ASSUME NEW e, Fire(e)
        PROVE  Prefix' /\ (Abstract!Next \/ UNCHANGED Abstract!vars)
    <3>1. CASE \E k \in Op : CopyEv(k) = e BY <2>6, <3>1, FireCopy
    <3>2. CASE \A k \in Op : CopyEv(k) # e BY <2>6, <3>2, FireOther
    <3> QED BY <3>1, <3>2
  <2>7. ASSUME NEW i, ReceiveInstance(i) \/ ReceiveBarrier(i)
        PROVE  UNCHANGED <<remote, sIssued, tIssued, spost, tpost, fired>>
    BY <2>7 DEF ReceiveInstance, ReceiveBarrier
  <2>8. CASE UNCHANGED vars BY <2>5, <2>8 DEF vars
  <2>9. CASE Next
    BY <2>3, <2>4, <2>5, <2>6, <2>7, <2>8, <2>9 DEF Next, Issue, ReceiveNames, Terminated
  <2> QED BY <2>8, <2>9
<1> QED BY <1>1, <1>2, IInvAlways, PTL DEF Spec, ImplementsRendezvous, Abstract!Spec

=============================================================================
