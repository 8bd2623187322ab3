---------------------------- MODULE MemoryProofs ----------------------------
(***************************************************************************)
(* Proofs about Memory, for any memories, shapes and capacities and any    *)
(* number of instances, arrays, tasks and copies.                          *)
(*                                                                         *)
(* The argument.  Whatever has an instance (an array, an entry of the tile *)
(* cache, a destruction that waits) has an event that covers every task    *)
(* and copy still using it: the event waits for it, or for a writer that   *)
(* does (Guarded).  Whoever uses the instance next waits for that event,   *)
(* so of two uses that conflict the later one is held back (Ordered).  So  *)
(* the writers of an instance end in the order they were launched in, and  *)
(* the last one before a reader leaves what the reader is to find (Valued).*)
(***************************************************************************)
EXTENDS Memory, SeqLemmas, TLAPS, FiniteSetTheorems, WellFoundedInduction

Pending(o) == ost[o] \in {"waiting", "running"}
Using(o, i) == Pending(o) /\ (from[o] = i \/ to[o] = i)
Writes(o, i) == Pending(o) /\ to[o] = i

\* Whoever waits for the event G waits for o.
Covered(o, G) == o \in G \/ \E w \in G : o \in opre[w]

\* What is in instance i when the tasks and copies before n are done, is v.
Result(o) == IF from[o] = None THEN o ELSE want[o]
Current(i, v, n) ==
  /\ \A w \in Op : Writes(w, i) /\ w < n =>
       Result(w) = v \/ \E x \in Op : Writes(x, i) /\ w < x /\ x < n
  /\ (\A w \in Op : Writes(w, i) => ~(w < n)) => data[i] = v

\* Numbers are given out in order.
Counts ==
  /\ \A a \in Array : ast[a] # "none" <=> a < nextId
  /\ \E n \in 0 .. NInst : \A i \in Inst : ist[i] # "none" <=> i <= n
  /\ \A o \in Op : ost[o] # "none" <=> o <= launched

\* Arrays that do not exist yet, arrays that do, and instances.
Exist ==
  /\ \A a \in Array : ast[a] = "none" => war[a] = {} /\ val[a] = None
  /\ \A a \in Array : Alive(a) => ashape[a] \in Shape /\ tile[a] \in Inst /\ ist[tile[a]] = "live"
  /\ \A k \in DOMAIN tiles : ist[tiles[k].inst] = "live"
  /\ tileCache \/ tiles = <<>>

\* No instance has two owners.
Apart ==
  /\ \A a, b \in Array : Alive(a) /\ Alive(b) /\ tile[a] = tile[b] => a = b
  /\ \A k, l \in DOMAIN tiles : tiles[k].inst = tiles[l].inst => k = l
  /\ \A k \in DOMAIN tiles, a \in Array : Alive(a) => tile[a] # tiles[k].inst

\* One that may be used again, or is to be destroyed, has one.
Kept ==
  \A i \in Inst : ist[i] = "live" =>
    (\E a \in Array : Owns(a, i)) \/ \E k \in DOMAIN tiles : tiles[k].inst = i

\* The queues of the ArrayCaches.
Queues ==
  \A m \in Mem, s \in Shape : \A k \in DOMAIN arrays[m][s] :
    /\ ast[arrays[m][s][k]] = "cached"
    /\ acache[arrays[m][s][k]] = m /\ ashape[arrays[m][s][k]] = s
    /\ \A l \in DOMAIN arrays[m][s] : arrays[m][s][l] = arrays[m][s][k] => l = k

\* The call in progress.
Calls ==
  /\ call.phase = "idle" => call = Idle
  /\ call.phase \in {"try", "retry"} => call.mem \in Mem /\ call.shape \in Shape /\ call.dst = None
  /\ call.phase = "retry" => tiles = <<>>
  /\ call.phase # "idle" /\ call.src # None => ast[call.src] = "held"
  /\ call.phase = "copy" => /\ call.src \in Array /\ call.dst \in Array
                            /\ ast[call.dst] = "held" /\ call.src # call.dst

\* Ids: an array that has not given its id away shares it with none such.
Ids ==
  /\ \A a \in Array : id[a] < nextId
  /\ \A a, b \in Array :
       Alive(a) /\ Alive(b) /\ a # b /\ id[a] = id[b] => given[a] \/ given[b]

\* A task or copy that was not launched, or that runs, waits for nothing; one that
\* waits or runs uses instances that exist.
Ops ==
  \A o \in Op :
    /\ ost[o] # "waiting" => opre[o] = {}
    /\ \A i \in Inst : Using(o, i) => ist[i] \in {"live", "lost", "doomed"}

Guarded ==
  \A o \in Op :
    /\ \A a \in Array : Alive(a) /\ Using(o, tile[a]) =>
         Covered(o, rw[a]) \/ (o \in war[a] /\ to[o] # tile[a])
    /\ \A k \in DOMAIN tiles : Using(o, tiles[k].inst) => Covered(o, tiles[k].after)
    /\ \A i \in Inst : ist[i] = "doomed" /\ Using(o, i) => Covered(o, doom[i])

Ordered ==
  \A o, p \in Op, i \in Inst :
    o < p /\ Using(o, i) /\ Using(p, i) /\ (to[o] = i \/ to[p] = i) => Covered(o, opre[p])

Valued ==
  /\ \A o \in Op : Pending(o) /\ want[o] # None => from[o] \in Inst /\ Current(from[o], want[o], o)
  /\ \A a \in Array : Alive(a) /\ val[a] # None => Current(tile[a], val[a], launched + 1)

IInv ==
  /\ TypeOK /\ Counts /\ Exist /\ Apart /\ Kept /\ Queues /\ Calls
  /\ Ids /\ Ops /\ Guarded /\ Ordered /\ Valued

-----------------------------------------------------------------------------
(***************************************************************************)
(* Numbers, and the sequences of the caches.                               *)
(***************************************************************************)
LEMMA Domains ==
  /\ NInst \in Nat /\ NArrays \in Nat /\ NOps \in Nat
  /\ Inst \subseteq Nat /\ Array \subseteq Nat /\ Op \subseteq Nat
  /\ None \notin Inst /\ None \notin Array /\ None \notin Op
  /\ IsFiniteSet(Inst) /\ IsFiniteSet(Array)
<1>1. NInst \in Nat /\ NArrays \in Nat /\ NOps \in Nat BY BoundsAssumption
<1>2. IsFiniteSet(Inst) /\ IsFiniteSet(Array) BY <1>1, FS_Interval DEF Inst, Array
<1> QED BY <1>1, <1>2 DEF Inst, Array, Op, None

\* How many numbers up to N are at most n.
LEMMA FirstOf ==
  ASSUME NEW N \in Nat, NEW n \in 0 .. N, NEW S, S = {x \in 1 .. N : x <= n}
  PROVE  Cardinality(S) = n
<1>1. S = 1 .. n OBVIOUS
<1>2. Cardinality(1 .. n) = n BY FS_Interval
<1> QED BY <1>1, <1>2

\* The array and the instance that are created next have the next number.
LEMMA NextArray ==
  ASSUME IInv
  PROVE  /\ Cardinality({b \in Array : ast[b] # "none"}) + 1 = nextId /\ nextId \in Nat
         /\ nextId \in Array => ast[nextId] = "none" /\ ~Alive(nextId)
<1>1. nextId \in 1 .. NArrays + 1 /\ NArrays \in Nat BY Domains DEF IInv, TypeOK
<1>2. {b \in Array : ast[b] # "none"} = {b \in 1 .. NArrays : b <= nextId - 1}
  <2>1. \A b \in Array : ast[b] # "none" <=> b < nextId BY DEF IInv, Counts
  <2>2. \A b \in 1 .. NArrays : b < nextId <=> b <= nextId - 1 BY <1>1
  <2> QED BY <2>1, <2>2 DEF Array
<1>3. Cardinality({b \in Array : ast[b] # "none"}) = nextId - 1
  <2>1. nextId - 1 \in 0 .. NArrays BY <1>1
  <2> QED BY <1>1, <1>2, <2>1, FirstOf
<1>4. nextId \in Array => ast[nextId] = "none" BY <1>1 DEF IInv, Counts
<1> QED BY <1>1, <1>3, <1>4 DEF Alive

\* The next instance gets the next number.
LEMMA NextInst ==
  ASSUME IInv, NEW j, j = Cardinality({i \in Inst : ist[i] # "none"}) + 1, j \in Inst
  PROVE  /\ ist[j] = "none"
         /\ \A i \in Inst : ist[i] # "none" \/ i = j <=> i <= j
<1>1. PICK n \in 0 .. NInst : \A i \in Inst : ist[i] # "none" <=> i <= n BY DEF IInv, Counts
<1>2. {i \in Inst : ist[i] # "none"} = {i \in 1 .. NInst : i <= n} BY <1>1 DEF Inst
<1>3. j = n + 1 BY <1>2, Domains, FirstOf
<1> QED BY <1>1, <1>3 DEF Inst

\* A nonempty set of natural numbers has a least element.
LEMMA LeastOf ==
  ASSUME NEW S, S \subseteq Nat, S # {}
  PROVE  \E l \in S : \A j \in S : l <= j
<1> DEFINE R == OpToRel(<, Nat)
<1>1. IsWellFoundedOn(R, Nat) BY NatLessThanWellFounded
<1>2. \A x, y \in Nat : x < y => <<x, y>> \in R BY DEF OpToRel
<1> HIDE DEF R
<1>3. PICK l \in S : \A j \in S : ~(<<j, l>> \in R) BY <1>1, WFMin
<1>4. \A j \in S : ~(j < l) BY <1>2, <1>3
<1> QED BY <1>4

\* The elements of a concatenation.
LEMMA ConcatAt ==
  ASSUME NEW S, NEW p \in Seq(S), NEW q \in Seq(S)
  PROVE  /\ p \o q \in Seq(S) /\ Len(p \o q) = Len(p) + Len(q)
         /\ Len(p) \in Nat /\ Len(q) \in Nat
         /\ \A i \in 1 .. Len(p) : (p \o q)[i] = p[i]
         /\ \A i \in 1 .. Len(q) : (p \o q)[Len(p) + i] = q[i]
BY ConcatProperties

\* The entries of the tile cache.
LEMMA TileEntry ==
  ASSUME IInv, NEW k \in DOMAIN tiles
  PROVE  /\ tiles[k] \in [inst : Inst, after : SUBSET Op]
         /\ tiles[k].inst \in Inst /\ tiles[k].after \in SUBSET Op
<1>1. tiles \in Seq([inst : Inst, after : SUBSET Op]) BY DEF IInv, TypeOK
<1>2. tiles[k] \in [inst : Inst, after : SUBSET Op] 
  <2>1. k \in 1 .. Len(tiles) BY <1>1
  <2> QED BY <1>1, <2>1, ElementOfSeq
<1> QED BY <1>2

\* SetToSeq lists a finite set without repetition.
LEMMA ListsAll ==
  ASSUME NEW S, IsFiniteSet(S)
  PROVE  /\ SetToSeq(S) \in Seq(S)
         /\ \A x \in S : \E k \in DOMAIN SetToSeq(S) : SetToSeq(S)[k] = x
         /\ \A k \in DOMAIN SetToSeq(S) : SetToSeq(S)[k] \in S
         /\ \A k, l \in DOMAIN SetToSeq(S) : SetToSeq(S)[k] = SetToSeq(S)[l] => k = l
<1> DEFINE n == Cardinality(S)
           q == SetToSeq(S)
<1>1. n \in Nat /\ ExistsBijection(1 .. n, S) BY FS_CardinalityType
<1>2. \E f \in [1 .. n -> S] : IsInjective(f)
  BY <1>1 DEF ExistsBijection, Bijection, Injection
<1>3. q \in [1 .. n -> S] /\ IsInjective(q) BY <1>2 DEF SetToSeq
<1>5. IsFiniteSet(1 .. n) /\ Cardinality(1 .. n) = n BY <1>1, FS_Interval
<1>6. \A x \in S : \E k \in 1 .. n : q[k] = x
  <2> DEFINE T == {q[k] : k \in 1 .. n}
  <2>1. T \subseteq S BY <1>3
  <2>2. q \in Surjection(1 .. n, T) BY <1>3 DEF Surjection
  <2>3. q \in Injection(1 .. n, T) BY <1>3 DEF Injection
  <2>4. Cardinality(T) = n BY <1>5, <2>2, <2>3, FS_Surjection
  <2>5. S = T BY <2>1, <2>4, FS_Subset
  <2> QED BY <2>5
<1>7. q \in Seq(S) BY <1>1, <1>3
<1> QED BY <1>3, <1>6, <1>7 DEF IsInjective

-----------------------------------------------------------------------------
(***************************************************************************)
(* The part of the invariant about tasks and copies, for each way a step   *)
(* can change it.                                                          *)
(***************************************************************************)
Dynamic == Ops /\ Guarded /\ Ordered /\ Valued

\* Instances change hands; no task or copy is launched or completes.
LEMMA Handover ==
  ASSUME IInv,
         launched' = launched, from' = from, to' = to, opre' = opre, ost' = ost, want' = want,
         \A o \in Op, i \in Inst : Using(o, i) =>
            /\ data'[i] = data[i] /\ ist'[i] \in {"live", "lost", "doomed"}
            /\ ist'[i] = "doomed" => Covered(o, doom'[i]),
         \A o \in Op : \A k \in DOMAIN tiles' : Using(o, tiles'[k].inst) => Covered(o, tiles'[k].after),
         \A a \in Array : Alive(a)' =>
            \/ /\ Alive(a) /\ tile'[a] = tile[a] /\ rw'[a] = rw[a] /\ war'[a] = war[a]
               /\ val'[a] = val[a] /\ data'[tile[a]] = data[tile[a]]
            \/ /\ val'[a] = None /\ \A o \in Op : Using(o, tile'[a]) => Covered(o, rw'[a])
  PROVE  Dynamic'
<1>1. /\ \A o, i : (Using(o, i)' <=> Using(o, i)) /\ (Writes(o, i)' <=> Writes(o, i))
      /\ \A o : (Pending(o)' <=> Pending(o)) /\ Result(o)' = Result(o)
      /\ \A o, G : Covered(o, G)' <=> Covered(o, G)
  BY DEF Using, Writes, Pending, Result, Covered
<1>3. Ops' BY <1>1 DEF IInv, Ops
<1>4. Guarded'
  <2>1. ASSUME NEW o \in Op, NEW a \in Array, Alive(a)', Using(o, tile'[a])
        PROVE  Covered(o, rw'[a]) \/ (o \in war'[a] /\ to[o] # tile'[a])
    BY <2>1 DEF IInv, Guarded
  <2>3. \A o \in Op : \A a \in Array : Alive(a)' /\ Using(o, tile[a])' =>
          Covered(o, rw[a])' \/ (o \in war'[a] /\ to'[o] # tile'[a])
    BY <2>1 DEF Using, Pending, Covered
  <2>4. \A o \in Op : \A k \in DOMAIN tiles' : Using(o, tiles[k].inst)' => Covered(o, tiles[k].after)'
    BY DEF Using, Pending, Covered
  <2>5. \A o \in Op, i \in Inst : ist'[i] = "doomed" /\ Using(o, i)' => Covered(o, doom[i])'
    BY DEF Using, Pending, Covered
  <2> QED BY <2>3, <2>4, <2>5 DEF Guarded
<1>5. Ordered'
  <2>1. \A o, p \in Op : Covered(o, opre[p])' <=> Covered(o, opre[p]) BY DEF Covered
  <2> QED BY <1>1, <2>1 DEF IInv, Ordered
<1>6. Valued'
  <2>1. ASSUME NEW o \in Op, Pending(o), want[o] # None
        PROVE  from[o] \in Inst /\ Current(from[o], want[o], o)'
    <3>1. from[o] \in Inst /\ Current(from[o], want[o], o) BY <2>1 DEF IInv, Valued
    <3>2. Using(o, from[o]) BY <2>1 DEF Using
    <3>3. data'[from[o]] = data[from[o]] BY <3>1, <3>2
    <3>4. Current(from[o], want[o], o)' BY <1>1, <3>1, <3>3 DEF Current
    <3> QED BY <3>1, <3>4
  <2>2. ASSUME NEW a \in Array, Alive(a)', val'[a] # None
        PROVE  Current(tile[a], val[a], launched + 1)'
    <3>1. Alive(a) /\ tile'[a] = tile[a] /\ val'[a] = val[a] /\ data'[tile[a]] = data[tile[a]]
      BY <2>2
    <3>2. Current(tile[a], val[a], launched + 1) BY <2>2, <3>1 DEF IInv, Valued
    <3> QED BY <1>1, <3>1, <3>2 DEF Current
  <2> QED BY <1>1, <2>1, <2>2 DEF Valued
<1> QED BY <1>3, <1>4, <1>5, <1>6 DEF Dynamic

\* A task or copy that was not launched is in no way of any other.
LEMMA NextOp ==
  ASSUME IInv, launched + 1 \in Op
  PROVE  /\ launched \in Nat /\ ost[launched + 1] = "none" /\ opre[launched + 1] = {}
         /\ \A o \in Op : Pending(o) => o < launched + 1
<1>1. launched \in Nat BY Domains DEF IInv, TypeOK
<1>2. ost[launched + 1] = "none" BY <1>1 DEF IInv, Counts
<1>3. \A o \in Op : Pending(o) => o < launched + 1
  BY <1>1, Domains DEF IInv, Counts, Pending
<1> QED BY <1>1, <1>2, <1>3 DEF IInv, Ops

\* A task or copy is launched that uses arrays: of those in W, whose events it enters
\* as a writer, and those in R, whose readers it joins.
Joins(p, G, j, W, R) ==
  /\ \A x \in W : Alive(x) /\ rw'[x] = rw[x] \cup {p} /\ war'[x] = {} /\ rw[x] \cup war[x] \subseteq G
  /\ \A x \in R : /\ Alive(x) /\ rw'[x] = rw[x] /\ war'[x] = war[x] \cup {p} /\ rw[x] \subseteq G
                  /\ x \notin W /\ tile[x] # j
  /\ \A x \in Array \ (W \cup R) : rw'[x] = rw[x] /\ war'[x] = war[x]

\* A task or copy that waits for the events of the arrays it uses, and whose event
\* they take, keeps the order of uses and values.
LEMMA IssueKeeps ==
  ASSUME IInv, NEW p \in Op, p = launched + 1, NEW i, NEW j, NEW G, NEW w, Issue(i, j, G, w),
         ist' = ist, doom' = doom, data' = data, tile' = tile, tiles' = tiles,
         \A x \in Array : Alive(x)' <=> Alive(x),
         NEW W \in SUBSET Array, NEW R \in SUBSET Array, Joins(p, G, j, W, R),
         i = None \/ \E x \in W \cup R : i = tile[x],
         j = None \/ \E x \in W : j = tile[x],
         \A x \in Array : Alive(x) /\ tile[x] = j => val'[x] = IF i = None THEN p ELSE w,
         \A x \in Array : Alive(x) /\ tile[x] # j => val'[x] = val[x],
         w # None => \E x \in Array : Alive(x) /\ tile[x] = i /\ val[x] = w
  PROVE  Dynamic'
<1>1. /\ TypeOK /\ launched \in Nat /\ ost[p] = "none" /\ opre[p] = {}
      /\ \A o \in Op : Pending(o) => o < p
      /\ Op \subseteq Nat
  BY NextOp, Domains DEF IInv
<1>2. /\ launched' = p /\ from'[p] = i /\ to'[p] = j /\ opre'[p] = G /\ ost'[p] = "waiting"
      /\ want'[p] = w
      /\ \A o \in Op : o # p => /\ from'[o] = from[o] /\ to'[o] = to[o] /\ opre'[o] = opre[o]
                                /\ ost'[o] = ost[o] /\ want'[o] = want[o]
  BY <1>1 DEF Issue, TypeOK
<1>3. \A o \in Op : o # p =>
        /\ \A l : (Using(o, l)' <=> Using(o, l)) /\ (Writes(o, l)' <=> Writes(o, l))
        /\ (Pending(o)' <=> Pending(o)) /\ Result(o)' = Result(o)
  BY <1>2 DEF Using, Writes, Pending, Result
<1>4. ~Pending(p) /\ Pending(p)' /\ \A l : Using(p, l)' <=> l = i \/ l = j
  BY <1>1, <1>2 DEF Pending, Using
<1>5. ASSUME NEW o \in Op, o # p, NEW X \in SUBSET Op, NEW Y, X \subseteq Y, Covered(o, X)
      PROVE  o \in Y \/ \E x \in Y : o \in opre'[x]
  BY <1>1, <1>2, <1>5 DEF Covered
<1>6. \A x \in Array : /\ rw[x] \in SUBSET Op /\ war[x] \in SUBSET Op
                       /\ Alive(x) => tile[x] \in Inst /\ ist[tile[x]] = "live"
  BY <1>1 DEF IInv, TypeOK, Exist
<1>7. \A x, y \in Array : Alive(x) /\ Alive(y) /\ tile[x] = tile[y] => x = y
  BY DEF IInv, Apart
<1>8. W \subseteq Array /\ R \subseteq Array /\ \A x \in W \cup R : Alive(x) BY DEF Joins
<1>9. \A l \in Inst : Using(p, l)' => \E x \in W \cup R : l = tile[x] BY <1>4, Domains
<1>10. Ops'
  <2>1. \A l \in Inst : Using(p, l)' => ist[l] = "live" BY <1>6, <1>8, <1>9
  <2> QED BY <1>2, <1>3, <2>1 DEF IInv, Ops
<1>11. Guarded'
  <2>1. ASSUME NEW o \in Op, o # p, NEW a \in Array, Alive(a), Using(o, tile[a])
        PROVE  Covered(o, rw[a])' \/ (o \in war'[a] /\ to'[o] # tile[a])
    <3>1. Covered(o, rw[a]) \/ (o \in war[a] /\ to[o] # tile[a]) BY <2>1 DEF IInv, Guarded
    <3>2. CASE a \in W
      <4>1. rw'[a] = rw[a] \cup {p} /\ war[a] \subseteq G BY <3>2 DEF Joins
      <4>2. CASE Covered(o, rw[a]) BY <1>5, <1>6, <2>1, <4>1, <4>2 DEF Covered
      <4>3. CASE o \in war[a] BY <1>2, <4>1, <4>3 DEF Covered
      <4> QED BY <3>1, <4>2, <4>3
    <3>3. CASE a \notin W
      <4>1. rw'[a] = rw[a] /\ war[a] \subseteq war'[a] BY <3>3 DEF Joins
      <4>2. CASE Covered(o, rw[a]) BY <1>5, <1>6, <2>1, <4>1, <4>2 DEF Covered
      <4> QED BY <1>2, <2>1, <3>1, <4>1, <4>2
    <3> QED BY <3>2, <3>3
  <2>2. ASSUME NEW a \in Array, Alive(a), Using(p, tile[a])'
        PROVE  Covered(p, rw[a])' \/ (p \in war'[a] /\ to'[p] # tile[a])
    <3>1. PICK x \in W \cup R : tile[a] = tile[x] BY <1>6, <1>9, <2>2
    <3>2. x = a BY <1>7, <1>8, <2>2, <3>1
    <3> QED BY <1>2, <3>2 DEF Joins, Covered
  <2>3. ASSUME NEW o \in Op, NEW k \in DOMAIN tiles, Using(o, tiles[k].inst)'
        PROVE  Covered(o, tiles[k].after)'
    <3>1. tiles[k].inst \in Inst /\ tiles[k].after \in SUBSET Op BY TileEntry
    <3>2. \A x \in Array : Alive(x) => tile[x] # tiles[k].inst BY DEF IInv, Apart
    <3>3. o # p BY <1>8, <1>9, <2>3, <3>1, <3>2
    <3>4. Covered(o, tiles[k].after) BY <1>3, <2>3, <3>3 DEF IInv, Guarded
    <3> QED BY <1>5, <3>1, <3>3, <3>4 DEF Covered
  <2>4. ASSUME NEW o \in Op, NEW l \in Inst, ist[l] = "doomed", Using(o, l)'
        PROVE  Covered(o, doom[l])'
    <3>1. doom[l] \in SUBSET Op BY <1>1 DEF TypeOK
    <3>2. o # p BY <1>6, <1>8, <1>9, <2>4
    <3>3. Covered(o, doom[l]) BY <1>3, <2>4, <3>2 DEF IInv, Guarded
    <3> QED BY <1>5, <3>1, <3>2, <3>3 DEF Covered
  <2>5. \A o \in Op, a \in Array : Alive(a)' /\ Using(o, tile[a])' =>
          Covered(o, rw[a])' \/ (o \in war'[a] /\ to'[o] # tile'[a])
    <3> SUFFICES ASSUME NEW o \in Op, NEW a \in Array, Alive(a)', Using(o, tile[a])'
                 PROVE  Covered(o, rw[a])' \/ (o \in war'[a] /\ to'[o] # tile'[a])
      OBVIOUS
    <3>1. CASE o = p BY <2>2, <3>1
    <3>2. CASE o # p
      <4>1. Using(o, tile[a]) BY <1>3, <3>2 DEF Using, Pending
      <4> QED BY <2>1, <3>2, <4>1
    <3> QED BY <3>1, <3>2
  <2> QED BY <2>3, <2>4, <2>5 DEF Guarded
<1>12. Ordered'
  <2> SUFFICES ASSUME NEW o \in Op, NEW q \in Op, NEW l \in Inst, o < q, Using(o, l)', Using(q, l)',
                      to'[o] = l \/ to'[q] = l
               PROVE  Covered(o, opre[q])'
    BY DEF Ordered
  <2>1. o # p
    <3>1. Pending(q)' BY DEF Using
    <3>2. q = p \/ q < p BY <1>1, <1>3, <3>1
    <3>3. o \in Nat /\ p \in Nat /\ q \in Nat BY <1>1
    <3> QED BY <3>2, <3>3
  <2>2. Using(o, l) /\ to'[o] = to[o] BY <1>2, <1>3, <2>1
  <2>3. CASE q # p
    <3>1. Covered(o, opre[q]) BY <1>2, <1>3, <2>2, <2>3 DEF IInv, Ordered
    <3>2. opre[q] \in SUBSET Op /\ opre'[q] = opre[q] BY <1>1, <1>2, <2>3 DEF TypeOK
    <3> QED BY <1>5, <2>1, <3>1, <3>2 DEF Covered
  <2>4. CASE q = p
    <3>1. PICK x \in W \cup R : l = tile[x] BY <1>9, <2>4
    <3>2. Covered(o, rw[x]) \/ (o \in war[x] /\ to[o] # l)
      BY <1>8, <2>2, <3>1 DEF IInv, Guarded
    <3>3. rw[x] \in SUBSET Op /\ rw[x] \subseteq G BY <1>6, <1>8 DEF Joins
    <3>4. Covered(o, rw[x]) => Covered(o, opre[p])' BY <1>2, <1>5, <2>1, <3>3 DEF Covered
    <3>5. CASE x \in W
      <4>1. o \in war[x] => o \in opre'[p] BY <1>2, <3>5 DEF Joins
      <4> QED BY <2>4, <3>2, <3>4, <4>1 DEF Covered
    <3>6. CASE x \in R
      <4>1. to'[p] # l BY <1>2, <3>1, <3>6 DEF Joins
      <4> QED BY <2>2, <2>4, <3>2, <3>4, <4>1
    <3> QED BY <3>5, <3>6
  <2> QED BY <2>3, <2>4
<1>13. Valued'
  <2>1. ASSUME NEW o \in Op, o # p, Pending(o), want[o] # None
        PROVE  from[o] \in Inst /\ Current(from[o], want[o], o)'
    <3>1. from[o] \in Inst /\ Current(from[o], want[o], o) BY <2>1 DEF IInv, Valued
    <3>2. o < p /\ from'[o] = from[o] /\ want'[o] = want[o] BY <1>1, <1>2, <2>1
    <3>3. \A x \in Op : x < o => x # p BY <1>1, <3>2
    <3> QED BY <1>3, <3>1, <3>2, <3>3 DEF Current
  <2>2. ASSUME w # None PROVE i \in Inst /\ Current(from[p], want[p], p)'
    <3>1. PICK x \in Array : Alive(x) /\ tile[x] = i /\ val[x] = w BY <2>2
    <3>2. Current(i, w, p) BY <2>2, <3>1 DEF IInv, Valued
    <3>3. \A y \in Op : y < p => y # p BY <1>1
    <3> QED BY <1>2, <1>3, <1>6, <3>1, <3>2, <3>3 DEF Current
  <2>3. ASSUME NEW a \in Array, Alive(a), val'[a] # None
        PROVE  Current(tile[a], val[a], launched + 1)'
    <3>1. CASE tile[a] = j
      <4>1. Writes(p, j)' /\ Result(p)' = val'[a]
        BY <1>2, <1>4, <2>3, <3>1 DEF Writes, Result
      <4>2. p < p + 1 /\ \A x \in Op : x < p + 1 /\ x # p => x < p BY <1>1
      <4>3. \A x \in Op : Writes(x, j)' /\ x < p + 1 =>
              Result(x)' = val'[a] \/ \E y \in Op : Writes(y, j)' /\ x < y /\ y < p + 1
        BY <4>1, <4>2
      <4>4. ~ \A x \in Op : Writes(x, j)' => ~(x < p + 1) BY <4>1, <4>2
      <4>5. launched' = p /\ tile'[a] = j BY <1>2, <3>1
      <4> HIDE DEF Writes, Result
      <4> QED BY <4>3, <4>4, <4>5 DEF Current, Writes, Pending, Result
    <3>2. CASE tile[a] # j
      <4>1. val'[a] = val[a] BY <2>3, <3>2
      <4>2. Current(tile[a], val[a], p) BY <2>3, <4>1 DEF IInv, Valued
      <4>3. ~Writes(p, tile[a])' BY <1>2, <3>2 DEF Writes
      <4>4. \A x \in Op : x # p => (x < p + 1 <=> x < p) BY <1>1
      <4>5. \A x \in Op : Writes(x, tile[a])' <=> x # p /\ Writes(x, tile[a]) BY <1>3, <4>3
      <4>6. \A x \in Op : Writes(x, tile[a])' /\ x < p + 1 =>
              Result(x)' = val[a] \/ \E y \in Op : Writes(y, tile[a])' /\ x < y /\ y < p + 1
        BY <1>1, <1>3, <4>2, <4>4, <4>5 DEF Current
      <4>7. (\A x \in Op : Writes(x, tile[a])' => ~(x < p + 1)) => data[tile[a]] = val[a]
        BY <1>1, <4>2, <4>4, <4>5 DEF Current, Writes
      <4>8. launched' = p BY <1>2
      <4> QED BY <4>1, <4>6, <4>7, <4>8 DEF Current, Writes, Pending, Result
    <3> QED BY <3>1, <3>2
  <2>4. \A o \in Op : Pending(o)' /\ want'[o] # None => from'[o] \in Inst /\ Current(from[o], want[o], o)'
    BY <1>2, <1>3, <2>1, <2>2
  <2> QED BY <2>3, <2>4 DEF Valued
<1> QED BY <1>10, <1>11, <1>12, <1>13 DEF Dynamic

\* A task or copy that starts waits for nothing any more.
LEMMA StartKeeps ==
  ASSUME IInv, NEW c \in Op, Start(c)
  PROVE  Dynamic'
<1>1. /\ opre[c] = {} /\ ost'[c] = "running" /\ Pending(c)' /\ Pending(c)
      /\ \A o \in Op : o # c => ost'[o] = ost[o]
  BY DEF Start, IInv, TypeOK, Pending
<1>2. \A o \in Op : Pending(o)' <=> Pending(o) BY <1>1 DEF Pending
<1>3. /\ from' = from /\ to' = to /\ opre' = opre /\ want' = want /\ launched' = launched
      /\ ist' = ist /\ doom' = doom /\ data' = data /\ ast' = ast /\ tile' = tile
      /\ rw' = rw /\ war' = war /\ val' = val /\ tiles' = tiles
  BY DEF Start, instVars, arrayVars, storeVars
<1>4. /\ \A o \in Op : \A i : (Using(o, i)' <=> Using(o, i)) /\ (Writes(o, i)' <=> Writes(o, i))
      /\ \A o \in Op : Result(o)' = Result(o)
      /\ \A o, G : Covered(o, G)' <=> Covered(o, G)
      /\ \A a \in Array : Alive(a)' <=> Alive(a)
  BY <1>2, <1>3 DEF Using, Writes, Result, Covered, Alive
<1>5. Ops' BY <1>1, <1>3, <1>4 DEF IInv, Ops
<1>6. Guarded'
  <2>1. \A o \in Op, a \in Array : (Using(o, tile[a])' <=> Using(o, tile[a])) /\ (Covered(o, rw[a])' <=> Covered(o, rw[a]))
    BY <1>2, <1>3 DEF Using, Covered
  <2>2. \A o \in Op, k \in DOMAIN tiles :
          (Using(o, tiles[k].inst)' <=> Using(o, tiles[k].inst)) /\ (Covered(o, tiles[k].after)' <=> Covered(o, tiles[k].after))
    BY <1>2, <1>3 DEF Using, Covered
  <2>3. \A o \in Op, i \in Inst : Covered(o, doom[i])' <=> Covered(o, doom[i])
    BY <1>3 DEF Covered
  <2> QED BY <1>3, <1>4, <2>1, <2>2, <2>3 DEF IInv, Guarded
<1>7. Ordered'
  <2>1. \A o, p \in Op : Covered(o, opre[p])' <=> Covered(o, opre[p]) BY <1>3 DEF Covered
  <2> QED BY <1>3, <1>4, <2>1 DEF IInv, Ordered
<1>8. Valued'
  <2>1. \A o \in Op : Current(from[o], want[o], o)' <=> Current(from[o], want[o], o)
    BY <1>2, <1>3, <1>4 DEF Current, Writes
  <2>2. \A a \in Array :
          Current(tile[a], val[a], launched + 1)' <=> Current(tile[a], val[a], launched + 1)
    BY <1>2, <1>3, <1>4 DEF Current, Writes
  <2> QED BY <1>2, <1>3, <1>4, <2>1, <2>2 DEF IInv, Valued
<1> QED BY <1>5, <1>6, <1>7, <1>8 DEF Dynamic

\* A task or copy completes.  It waited for all others before it that use what it
\* writes, and that write what it uses, so it leaves what is to be there.
LEMMA CompleteKeeps ==
  ASSUME IInv, NEW c \in Op, Complete(c)
  PROVE  Dynamic'
<1>1. /\ TypeOK /\ Op \subseteq Nat /\ ost[c] = "running" /\ Pending(c) /\ opre[c] = {}
      /\ ost'[c] = "done" /\ ~Pending(c)'
      /\ \A o \in Op : o # c => /\ ost'[o] = ost[o] /\ from'[o] = from[o] /\ to'[o] = to[o]
                                /\ want'[o] = want[o]
  <2>1. TypeOK /\ Op \subseteq Nat /\ ost[c] = "running" BY Domains DEF Complete, IInv
  <2>2. opre[c] = {} BY <2>1 DEF IInv, Ops
  <2> QED BY <2>1, <2>2 DEF Complete, TypeOK, Pending
<1>2. /\ \A o \in Op : opre'[o] = opre[o] \ {c}
      /\ \A a \in Array : rw'[a] = rw[a] \ {c} /\ war'[a] = war[a] \ {c}
      /\ \A i \in Inst : doom'[i] = doom[i] \ {c}
      /\ ist' = ist /\ ast' = ast /\ tile' = tile /\ val' = val /\ launched' = launched
  BY <1>1 DEF Complete, TypeOK, arrayVars
<1>3. /\ DOMAIN tiles' = DOMAIN tiles
      /\ \A k \in DOMAIN tiles : tiles'[k].inst = tiles[k].inst /\ tiles'[k].after = tiles[k].after \ {c}
  <2>1. \A k \in DOMAIN tiles : tiles[k] \in [inst : Inst, after : SUBSET Op] BY TileEntry
  <2> QED BY <2>1 DEF Complete
<1>4. \A o \in Op : /\ Pending(o)' <=> o # c /\ Pending(o)
                    /\ \A i : Using(o, i)' <=> o # c /\ Using(o, i)
                    /\ \A i : Writes(o, i)' <=> o # c /\ Writes(o, i)
                    /\ o # c => Result(o)' = Result(o)
  BY <1>1 DEF Pending, Using, Writes, Result
<1>5. ASSUME NEW o \in Op, o # c, NEW X \in SUBSET Op, Covered(o, X)
      PROVE  o \in X \ {c} \/ \E w \in X \ {c} : o \in opre'[w]
  <2>1. \A w \in X : o \in opre[w] => w # c BY <1>1
  <2> QED BY <1>2, <1>5, <2>1 DEF Covered
<1>6. \A a \in Array : Alive(a)' <=> Alive(a) BY <1>2 DEF Alive
<1>7. Ops' BY <1>1, <1>2, <1>4 DEF IInv, Ops
<1>8. Guarded'
  <2>1. ASSUME NEW o \in Op, NEW a \in Array, Alive(a), Using(o, tile[a])'
        PROVE  Covered(o, rw[a])' \/ (o \in war'[a] /\ to'[o] # tile[a])
    <3>1. o # c /\ Using(o, tile[a]) BY <1>2, <1>1, <2>1 DEF Using, Pending
    <3>2. Covered(o, rw[a]) \/ (o \in war[a] /\ to[o] # tile[a]) BY <2>1, <3>1 DEF IInv, Guarded
    <3>3. CASE Covered(o, rw[a])
      <4>1. rw[a] \in SUBSET Op BY <1>1 DEF TypeOK
      <4> QED BY <1>2, <1>5, <3>1, <3>3, <4>1 DEF Covered
    <3> QED BY <1>1, <1>2, <3>1, <3>2, <3>3
  <2>2. ASSUME NEW o \in Op, NEW k \in DOMAIN tiles, Using(o, tiles[k].inst)'
        PROVE  Covered(o, tiles[k].after)'
    <3>1. o # c /\ Using(o, tiles[k].inst) BY <1>3, <1>1, <2>2 DEF Using, Pending
    <3>2. Covered(o, tiles[k].after) BY <3>1 DEF IInv, Guarded
    <3>3. tiles[k].after \in SUBSET Op BY TileEntry
    <3> QED BY <1>3, <1>5, <3>1, <3>2, <3>3 DEF Covered
  <2>3. ASSUME NEW o \in Op, NEW i \in Inst, ist[i] = "doomed", Using(o, i)'
        PROVE  Covered(o, doom[i])'
    <3>1. o # c /\ Using(o, i) BY <1>4, <2>3
    <3>2. Covered(o, doom[i]) BY <2>3, <3>1 DEF IInv, Guarded
    <3>3. doom[i] \in SUBSET Op BY <1>1 DEF TypeOK
    <3> QED BY <1>2, <1>5, <3>1, <3>2, <3>3 DEF Covered
  <2> QED BY <1>2, <1>3, <1>6, <2>1, <2>2, <2>3 DEF Guarded
<1>9. Ordered'
  <2> SUFFICES ASSUME NEW o \in Op, NEW p \in Op, NEW i \in Inst, o < p, Using(o, i)', Using(p, i)',
                      to'[o] = i \/ to'[p] = i
               PROVE  Covered(o, opre[p])'
    BY DEF Ordered
  <2>1. o # c /\ p # c /\ Using(o, i) /\ Using(p, i) /\ (to[o] = i \/ to[p] = i) BY <1>1, <1>4
  <2>2. Covered(o, opre[p]) BY <2>1 DEF IInv, Ordered
  <2>3. opre[p] \in SUBSET Op BY <1>1 DEF TypeOK
  <2> QED BY <1>2, <1>5, <2>1, <2>2, <2>3 DEF Covered
<1>10. ASSUME NEW i \in Inst, NEW w \in Op, w < c, Using(w, i), to[c] = i \/ (from[c] = i /\ to[w] = i)
       PROVE  FALSE
  <2>1. Using(c, i) BY <1>1, <1>10 DEF Using
  <2>2. Covered(w, opre[c]) BY <1>10, <2>1 DEF IInv, Ordered
  <2> QED BY <1>1, <2>2 DEF Covered
<1>11. ASSUME NEW i \in Inst, to[c] = i, NEW v, v # None, Result(c) = v
       PROVE  data'[i] = v
  <2>1. data'[i] = IF from[c] = None THEN c ELSE data[from[c]] BY <1>1, <1>11 DEF Complete, TypeOK
  <2>2. CASE from[c] = None BY <1>11, <2>1, <2>2 DEF Result
  <2>3. CASE from[c] # None
    <3>1. want[c] = v BY <1>11, <2>3 DEF Result
    <3>2. from[c] \in Inst /\ Current(from[c], v, c) BY <1>1, <1>11, <3>1 DEF IInv, Valued
    <3>3. \A w \in Op : Writes(w, from[c]) => ~(w < c) BY <1>10, <3>2 DEF Writes, Using
    <3>4. data[from[c]] = v BY <3>2, <3>3 DEF Current
    <3> QED BY <2>1, <2>3, <3>4
  <2> QED BY <2>2, <2>3
<1>12. ASSUME NEW i \in Inst, NEW v, v # None, NEW n \in Nat, Current(i, v, n), to[c] = i => c < n
       PROVE  /\ \A w \in Op : w # c /\ Writes(w, i) /\ w < n =>
                   Result(w)' = v \/ \E x \in Op : x # c /\ Writes(x, i) /\ w < x /\ x < n
              /\ (\A w \in Op : w # c /\ Writes(w, i) => ~(w < n)) => data'[i] = v
  <2>1. CASE to[c] # i
    <3>1. \A w \in Op : Writes(w, i) => w # c BY <2>1 DEF Writes
    <3>2. data'[i] = data[i] BY <2>1 DEF Complete
    <3> QED BY <1>4, <1>12, <3>1, <3>2 DEF Current
  <2>2. CASE to[c] = i
    <3>1. \A w \in Op : w # c /\ Writes(w, i) => c < w
      <4> SUFFICES ASSUME NEW w \in Op, w # c, Writes(w, i) PROVE c < w OBVIOUS
      <4>1. ~(w < c) BY <1>10, <2>2 DEF Writes, Using
      <4>2. w \in Nat /\ c \in Nat BY <1>1
      <4> QED BY <4>1, <4>2
    <3>2. \A w \in Op : w # c /\ Writes(w, i) => \A x \in Op : w < x => x # c
      <4> SUFFICES ASSUME NEW w \in Op, w # c, Writes(w, i), NEW x \in Op, w < x PROVE x # c OBVIOUS
      <4>1. c < w /\ w \in Nat /\ c \in Nat /\ x \in Nat BY <1>1, <3>1
      <4> QED BY <4>1
    <3>3. ASSUME \A w \in Op : w # c /\ Writes(w, i) => ~(w < n) PROVE data'[i] = v
      <4>1. Writes(c, i) /\ c < n BY <1>1, <1>12, <2>2 DEF Writes
      <4>2. Result(c) = v \/ \E x \in Op : Writes(x, i) /\ c < x /\ x < n BY <1>12, <4>1 DEF Current
      <4>3. \A x \in Op : c < x => x # c BY <1>1
      <4>4. Result(c) = v BY <3>3, <4>2, <4>3
      <4> QED BY <1>11, <1>12, <2>2, <4>4
    <3> QED BY <1>4, <1>12, <3>2, <3>3 DEF Current
  <2> QED BY <2>1, <2>2
<1>13. Valued'
  <2>1. ASSUME NEW o \in Op, Pending(o)', want'[o] # None
        PROVE  from'[o] \in Inst /\ Current(from[o], want[o], o)'
    <3>1. o # c /\ Pending(o) /\ from'[o] = from[o] /\ want'[o] = want[o] BY <1>1, <1>4, <2>1
    <3>2. from[o] \in Inst /\ Current(from[o], want[o], o) BY <2>1, <3>1 DEF IInv, Valued
    <3>3. to[c] = from[o] => c < o
      <4> HAVE to[c] = from[o]
      <4>1. ~(o < c) BY <1>10, <3>1, <3>2 DEF Using
      <4>2. o \in Nat /\ c \in Nat BY <1>1
      <4> QED BY <3>1, <4>1, <4>2
    <3>4. o \in Nat /\ want[o] # None BY <1>1, <2>1, <3>1
    <3>5. \A x \in Op : Writes(x, from[o])' <=> x # c /\ Writes(x, from[o])
      BY <1>1, <1>4, <3>1 DEF Writes
    <3>6. /\ \A w \in Op : w # c /\ Writes(w, from[o]) /\ w < o =>
               Result(w)' = want[o] \/ \E x \in Op : x # c /\ Writes(x, from[o]) /\ w < x /\ x < o
          /\ (\A w \in Op : w # c /\ Writes(w, from[o]) => ~(w < o)) => data'[from[o]] = want[o]
      BY <1>12, <3>2, <3>3, <3>4
    <3> QED BY <3>1, <3>2, <3>5, <3>6 DEF Current
  <2>2. ASSUME NEW a \in Array, Alive(a), val[a] # None
        PROVE  Current(tile[a], val[a], launched + 1)'
    <3>1. Current(tile[a], val[a], launched + 1) /\ tile[a] \in Inst BY <2>2 DEF IInv, Valued, Exist
    <3>2. launched \in Nat /\ c <= launched BY <1>1, Domains DEF IInv, TypeOK, Counts
    <3>3. launched + 1 \in Nat /\ c < launched + 1 BY <1>1, <3>2
    <3>4. \A x \in Op : Writes(x, tile[a])' <=> x # c /\ Writes(x, tile[a])
      BY <1>1, <1>2, <1>4 DEF Writes
    <3>5. /\ \A w \in Op : w # c /\ Writes(w, tile[a]) /\ w < launched + 1 =>
               \/ Result(w)' = val[a]
               \/ \E x \in Op : x # c /\ Writes(x, tile[a]) /\ w < x /\ x < launched + 1
          /\ (\A w \in Op : w # c /\ Writes(w, tile[a]) => ~(w < launched + 1)) =>
               data'[tile[a]] = val[a]
      BY <1>12, <2>2, <3>1, <3>3
    <3> QED BY <1>2, <3>4, <3>5 DEF Current
  <2> QED BY <1>2, <1>6, <2>1, <2>2 DEF Valued
<1> QED BY <1>7, <1>8, <1>9, <1>13 DEF Dynamic

-----------------------------------------------------------------------------
(***************************************************************************)
(* Steps of tasks and copies keep who owns what.                           *)
(***************************************************************************)
LEMMA OpStep ==
  ASSUME IInv, TypeOK', Dynamic', tileCache' = tileCache,
         ist' = ist, imem' = imem, ishape' = ishape, UNCHANGED arrayVars, arrays' = arrays, call' = call,
         DOMAIN tiles' = DOMAIN tiles, \A k \in DOMAIN tiles : tiles'[k].inst = tiles[k].inst,
         tiles = <<>> => tiles' = <<>>,
         \A a \in Array : ast[a] = "none" => war'[a] = {} /\ val'[a] = None,
         \A o \in Op : ost'[o] # "none" <=> o <= launched'
  PROVE  IInv'
<1>1. ast' = ast /\ acache' = acache /\ ashape' = ashape /\ tile' = tile /\ id' = id /\ given' = given /\ nextId' = nextId
  BY DEF arrayVars
<1>2. \A a : Alive(a)' <=> Alive(a) BY <1>1 DEF Alive
<1>3. Counts' BY <1>1 DEF IInv, Counts
<1>4. Exist' BY <1>1, <1>2 DEF IInv, Exist
<1>5. Apart' BY <1>1, <1>2 DEF IInv, Apart
<1>6. Kept' BY <1>1, <1>2 DEF IInv, Kept, Owns
<1>7. Queues' BY <1>1 DEF IInv, Queues
<1>8. Calls' BY <1>1 DEF IInv, Calls
<1>9. Ids' BY <1>1, <1>2 DEF IInv, Ids
<1> QED BY <1>3, <1>4, <1>5, <1>6, <1>7, <1>8, <1>9 DEF IInv, Dynamic

\* The record of a task or copy that is launched is well-formed.
LEMMA IssueTypes ==
  ASSUME IInv, NEW i \in Inst \cup {None}, NEW j \in Inst \cup {None}, NEW G \in SUBSET Op,
         NEW w \in Op \cup {None}, Issue(i, j, G, w)
  PROVE  /\ launched + 1 \in Op /\ launched' \in 0 .. NOps
         /\ from' \in [Op -> Inst \cup {None}] /\ to' \in [Op -> Inst \cup {None}]
         /\ opre' \in [Op -> SUBSET Op]
         /\ ost' \in [Op -> {"none", "waiting", "running", "done"}]
         /\ want' \in [Op -> Op \cup {None}]
         /\ \A o \in Op : ost'[o] # "none" <=> o <= launched'
<1>1. TypeOK /\ NOps \in Nat /\ launched \in 0 .. NOps BY Domains DEF IInv, TypeOK
<1>2. launched + 1 \in Op /\ launched' \in 0 .. NOps BY <1>1 DEF Issue, Op
<1>3. \A o \in Op : ost[o] # "none" <=> o <= launched BY DEF IInv, Counts
<1>4. /\ from' \in [Op -> Inst \cup {None}] /\ to' \in [Op -> Inst \cup {None}]
      /\ opre' \in [Op -> SUBSET Op]
      /\ ost' \in [Op -> {"none", "waiting", "running", "done"}]
      /\ want' \in [Op -> Op \cup {None}]
  BY <1>1 DEF Issue, TypeOK
<1>5. \A o \in Op : ost'[o] # "none" <=> o <= launched'
  <2>1. \A o \in Op : ost'[o] = IF o = launched + 1 THEN "waiting" ELSE ost[o] BY <1>1 DEF Issue, TypeOK
  <2>2. \A o \in Op : o <= launched' <=> o = launched + 1 \/ o <= launched
    BY <1>1, Domains DEF Issue
  <2> QED BY <1>3, <2>1, <2>2
<1> QED BY <1>2, <1>4, <1>5

\* A task that writes an array keeps the invariant.
LEMMA LaunchWriteStep ==
  ASSUME IInv, NEW a \in Array, LaunchWrite(a)
  PROVE  IInv'
<1>1. /\ TypeOK /\ Alive(a) /\ ast[a] = "held" /\ tile[a] \in Inst /\ Precondition(a) \in SUBSET Op
      /\ \A x \in Array : Alive(x) /\ tile[x] = tile[a] => x = a
  <2>1. TypeOK /\ ast[a] = "held" BY DEF LaunchWrite, IInv
  <2>2. Alive(a) BY <2>1 DEF Alive
  <2> QED BY <2>1, <2>2 DEF IInv, Exist, Apart, TypeOK, Precondition
<1>2. Issue(None, tile[a], Precondition(a), None) BY DEF LaunchWrite
<1> DEFINE p == launched + 1
<1>3. /\ p \in Op /\ launched' \in 0 .. NOps
      /\ from' \in [Op -> Inst \cup {None}] /\ to' \in [Op -> Inst \cup {None}]
      /\ opre' \in [Op -> SUBSET Op]
      /\ ost' \in [Op -> {"none", "waiting", "running", "done"}]
      /\ want' \in [Op -> Op \cup {None}]
      /\ \A o \in Op : ost'[o] # "none" <=> o <= launched'
  BY <1>1, <1>2, IssueTypes
<1>4. /\ tileCache' = tileCache /\ ist' = ist /\ imem' = imem /\ ishape' = ishape /\ doom' = doom
      /\ data' = data /\ UNCHANGED arrayVars /\ tiles' = tiles /\ arrays' = arrays /\ call' = call
  BY DEF LaunchWrite, instVars
<1>5. ast' = ast /\ acache' = acache /\ ashape' = ashape /\ tile' = tile /\ id' = id /\ given' = given /\ nextId' = nextId
  BY <1>4 DEF arrayVars
<1>6. \A x \in Array : /\ rw'[x] = IF x = a THEN rw[a] \cup {p} ELSE rw[x]
                       /\ war'[x] = IF x = a THEN {} ELSE war[x]
                       /\ val'[x] = IF x = a THEN p ELSE val[x]
  BY <1>1 DEF LaunchWrite, TypeOK
<1>7. TypeOK'
  <2>1. /\ rw' \in [Array -> SUBSET Op] /\ hasRw' \in [Array -> BOOLEAN]
        /\ war' \in [Array -> SUBSET Op] /\ hasWar' \in [Array -> BOOLEAN]
        /\ val' \in [Array -> Op \cup {None}]
    BY <1>1, <1>3 DEF LaunchWrite, TypeOK
  <2> QED BY <1>1, <1>3, <1>4, <1>5, <2>1 DEF TypeOK
<1>8. Dynamic'
  <2>1. Joins(p, Precondition(a), tile[a], {a}, {})
    BY <1>1, <1>6 DEF Joins, Precondition
  <2>2. \A x \in Array : Alive(x)' <=> Alive(x) BY <1>5 DEF Alive
  <2>3. /\ \A x \in Array : Alive(x) /\ tile[x] = tile[a] => val'[x] = IF None = None THEN p ELSE None
        /\ \A x \in Array : Alive(x) /\ tile[x] # tile[a] => val'[x] = val[x]
    BY <1>1, <1>6
  <2>4. tile[a] = None \/ \E x \in {a} : tile[a] = tile[x] OBVIOUS
  <2>5. {a} \in SUBSET Array /\ {} \in SUBSET Array OBVIOUS
  <2> HIDE DEF p
  <2>6. p \in Op /\ p = launched + 1 BY <1>3 DEF p
  <2> QED BY <1>2, <1>4, <1>5, <2>1, <2>2, <2>3, <2>4, <2>5, <2>6, IssueKeeps
<1>9. \A x \in Array : ast[x] = "none" => war'[x] = {} /\ val'[x] = None
  BY <1>1, <1>6 DEF IInv, Exist
<1> QED BY <1>3, <1>4, <1>7, <1>8, <1>9, OpStep

\* A task that reads an array keeps the invariant.
LEMMA LaunchReadStep ==
  ASSUME IInv, NEW a \in Array, LaunchRead(a)
  PROVE  IInv'
<1>1. /\ TypeOK /\ Alive(a) /\ ast[a] = "held" /\ tile[a] \in Inst /\ rw[a] \in SUBSET Op
      /\ val[a] \in Op \cup {None}
      /\ \A x \in Array : Alive(x) => tile[x] # None
  <2>1. TypeOK /\ ast[a] = "held" BY DEF LaunchRead, IInv
  <2>2. Alive(a) BY <2>1 DEF Alive
  <2>3. \A x \in Array : Alive(x) => tile[x] \in Inst BY DEF IInv, Exist
  <2>4. rw[a] \in SUBSET Op /\ val[a] \in Op \cup {None} BY <2>1 DEF TypeOK
  <2> QED BY <2>1, <2>2, <2>3, <2>4, Domains
<1>2. Issue(tile[a], None, rw[a], val[a]) BY DEF LaunchRead
<1> DEFINE p == launched + 1
<1>3. /\ p \in Op /\ launched' \in 0 .. NOps
      /\ from' \in [Op -> Inst \cup {None}] /\ to' \in [Op -> Inst \cup {None}]
      /\ opre' \in [Op -> SUBSET Op]
      /\ ost' \in [Op -> {"none", "waiting", "running", "done"}]
      /\ want' \in [Op -> Op \cup {None}]
      /\ \A o \in Op : ost'[o] # "none" <=> o <= launched'
  BY <1>1, <1>2, IssueTypes
<1>4. /\ tileCache' = tileCache /\ ist' = ist /\ imem' = imem /\ ishape' = ishape /\ doom' = doom
      /\ data' = data /\ UNCHANGED arrayVars /\ tiles' = tiles /\ arrays' = arrays /\ call' = call
      /\ rw' = rw /\ hasRw' = hasRw /\ val' = val
  BY DEF LaunchRead, instVars
<1>5. ast' = ast /\ acache' = acache /\ ashape' = ashape /\ tile' = tile /\ id' = id /\ given' = given /\ nextId' = nextId
  BY <1>4 DEF arrayVars
<1>6. \A x \in Array : war'[x] = IF x = a THEN war[a] \cup {p} ELSE war[x]
  BY <1>1 DEF LaunchRead, TypeOK
<1>7. TypeOK'
  <2>1. war' \in [Array -> SUBSET Op] /\ hasWar' \in [Array -> BOOLEAN]
    BY <1>1, <1>3 DEF LaunchRead, TypeOK
  <2> QED BY <1>1, <1>3, <1>4, <1>5, <2>1 DEF TypeOK
<1>8. Dynamic'
  <2>1. Joins(p, rw[a], None, {}, {a}) BY <1>1, <1>4, <1>6 DEF Joins
  <2>2. \A x \in Array : Alive(x)' <=> Alive(x) BY <1>5 DEF Alive
  <2>3. /\ \A x \in Array : Alive(x) /\ tile[x] = None =>
             val'[x] = IF tile[a] = None THEN p ELSE val[a]
        /\ \A x \in Array : Alive(x) /\ tile[x] # None => val'[x] = val[x]
    BY <1>1, <1>4
  <2>4. \E x \in {} \cup {a} : tile[a] = tile[x] OBVIOUS
  <2>5. val[a] # None => \E x \in Array : Alive(x) /\ tile[x] = tile[a] /\ val[x] = val[a]
    BY <1>1
  <2>6. {a} \in SUBSET Array /\ {} \in SUBSET Array OBVIOUS
  <2> HIDE DEF p
  <2>7. p \in Op /\ p = launched + 1 BY <1>3 DEF p
  <2> QED BY <1>2, <1>4, <1>5, <2>1, <2>2, <2>3, <2>4, <2>5, <2>6, <2>7, IssueKeeps
<1>9. \A x \in Array : ast[x] = "none" => war'[x] = {} /\ val'[x] = None
  BY <1>1, <1>4, <1>6 DEF IInv, Exist
<1> QED BY <1>3, <1>4, <1>7, <1>8, <1>9, OpStep

\* Store::Wait keeps the invariant: its events have triggered, so forgetting them is
\* sound.
LEMMA WaitStep ==
  ASSUME IInv, NEW a \in Array, Wait(a)
  PROVE  IInv'
<1>1. /\ UNCHANGED <<tileCache, ist, imem, ishape, doom, data, rw, war, val, tiles, arrays, call>>
      /\ UNCHANGED arrayVars /\ UNCHANGED <<launched, from, to, opre, ost, want>>
  BY DEF Wait, instVars, opVars
<1>2. ast' = ast /\ acache' = acache /\ ashape' = ashape /\ tile' = tile /\ id' = id /\ given' = given /\ nextId' = nextId
  BY <1>1 DEF arrayVars
<1>3. TypeOK'
  <2>1. TypeOK BY DEF IInv
  <2>2. hasRw' \in [Array -> BOOLEAN] /\ hasWar' \in [Array -> BOOLEAN] BY <2>1 DEF Wait, TypeOK
  <2> QED BY <1>1, <1>2, <2>1, <2>2 DEF TypeOK
<1>4. Dynamic'
  <2>1. \A o \in Op, i \in Inst : Using(o, i) =>
          /\ data'[i] = data[i] /\ ist'[i] \in {"live", "lost", "doomed"}
          /\ ist'[i] = "doomed" => Covered(o, doom'[i])
    BY <1>1 DEF IInv, Ops, Guarded
  <2>2. \A o \in Op : \A k \in DOMAIN tiles' : Using(o, tiles'[k].inst) => Covered(o, tiles'[k].after)
    BY <1>1 DEF IInv, Guarded
  <2>3. \A x \in Array : Alive(x)' => Alive(x) BY <1>2 DEF Alive
  <2> QED BY <1>1, <1>2, <2>1, <2>2, <2>3, Handover
<1>5. \A o \in Op : ost'[o] # "none" <=> o <= launched' BY <1>1 DEF IInv, Counts
<1>6. \A x \in Array : ast[x] = "none" => war'[x] = {} /\ val'[x] = None BY <1>1 DEF IInv, Exist
<1> QED BY <1>1, <1>3, <1>4, <1>5, <1>6, OpStep

\* The start of a task or copy keeps the invariant.
LEMMA StartStep ==
  ASSUME IInv, NEW o \in Op, Start(o)
  PROVE  IInv'
<1>1. /\ UNCHANGED <<tileCache, ist, imem, ishape, doom, data, tiles, arrays, call>>
      /\ UNCHANGED <<rw, hasRw, war, hasWar, val>>
      /\ UNCHANGED arrayVars /\ UNCHANGED <<launched, from, to, opre, want>>
  BY DEF Start, instVars, storeVars
<1>2. ast' = ast /\ acache' = acache /\ ashape' = ashape /\ tile' = tile /\ id' = id /\ given' = given /\ nextId' = nextId
  BY <1>1 DEF arrayVars
<1>3. TypeOK /\ ost' = [ost EXCEPT ![o] = "running"] /\ ost[o] = "waiting" BY DEF Start, IInv
<1>4. TypeOK' BY <1>1, <1>2, <1>3 DEF TypeOK
<1>5. \A p \in Op : ost'[p] # "none" <=> p <= launched' BY <1>1, <1>3 DEF IInv, Counts, TypeOK
<1>6. \A x \in Array : ast[x] = "none" => war'[x] = {} /\ val'[x] = None BY <1>1 DEF IInv, Exist
<1> QED BY <1>1, <1>4, <1>5, <1>6, StartKeeps, OpStep

\* The end of a task or copy keeps the invariant.
LEMMA CompleteStep ==
  ASSUME IInv, NEW o \in Op, Complete(o)
  PROVE  IInv'
<1>1. /\ UNCHANGED <<tileCache, ist, imem, ishape, hasRw, hasWar, val, arrays, call, launched>>
      /\ UNCHANGED arrayVars
  BY DEF Complete
<1>2. ast' = ast /\ acache' = acache /\ ashape' = ashape /\ tile' = tile /\ id' = id /\ given' = given /\ nextId' = nextId
  BY <1>1 DEF arrayVars
<1>3. TypeOK BY DEF IInv
<1>4. /\ DOMAIN tiles' = DOMAIN tiles
      /\ \A k \in DOMAIN tiles : /\ tiles'[k].inst = tiles[k].inst
                                 /\ tiles'[k] \in [inst : Inst, after : SUBSET Op]
      /\ tiles' \in Seq([inst : Inst, after : SUBSET Op])
      /\ tiles = <<>> => tiles' = <<>>
  <2>1. \A k \in DOMAIN tiles : tiles[k] \in [inst : Inst, after : SUBSET Op] BY TileEntry
  <2>2. tiles' = [k \in DOMAIN tiles |-> [tiles[k] EXCEPT !.after = @ \ {o}]] BY DEF Complete
  <2>3. \A k \in DOMAIN tiles : /\ tiles'[k].inst = tiles[k].inst
                                /\ tiles'[k] \in [inst : Inst, after : SUBSET Op]
    BY <2>1, <2>2
  <2>4. DOMAIN tiles = 1 .. Len(tiles) /\ Len(tiles) \in Nat BY <1>3 DEF TypeOK
  <2>5. tiles' \in Seq([inst : Inst, after : SUBSET Op]) /\ Len(tiles') = Len(tiles)
    BY <2>2, <2>3, <2>4
  <2>6. tiles = <<>> => tiles' = <<>> BY <2>4, <2>5
  <2> QED BY <2>2, <2>3, <2>5, <2>6
<1>5. TypeOK'
  <2>1. /\ rw' \in [Array -> SUBSET Op] /\ war' \in [Array -> SUBSET Op]
        /\ doom' \in [Inst -> SUBSET Op] /\ opre' \in [Op -> SUBSET Op]
        /\ from' \in [Op -> Inst \cup {None}] /\ to' \in [Op -> Inst \cup {None}]
        /\ want' \in [Op -> Op \cup {None}] /\ ost' \in [Op -> {"none", "waiting", "running", "done"}]
    BY <1>3 DEF Complete, TypeOK
  <2>2. data' \in [Inst -> Op \cup {None}] BY <1>3 DEF Complete, TypeOK
  <2> QED BY <1>1, <1>2, <1>3, <1>4, <2>1, <2>2 DEF TypeOK
<1>6. \A p \in Op : ost'[p] # "none" <=> p <= launched' BY <1>1, <1>3 DEF Complete, IInv, Counts, TypeOK
<1>7. \A x \in Array : ast[x] = "none" => war'[x] = {} /\ val'[x] = None
  BY <1>1, <1>3 DEF Complete, IInv, Exist, TypeOK
<1> QED BY <1>1, <1>4, <1>5, <1>6, <1>7, CompleteKeeps, OpStep

\* InstanceCache::Free puts an array at the end of a queue.
LEMMA PutInCache ==
  ASSUME IInv, NEW a \in Array, ast[a] = "held", NEW m \in Mem, Free(a, m), ashape' = ashape
  PROVE  /\ ast' \in [Array -> {"none", "held", "cached", "dead"}]
         /\ acache' \in [Array -> Mem \cup {None}]
         /\ arrays' \in [Mem -> [Shape -> Seq(Array)]]
         /\ \A x \in Array : ast'[x] = IF x = a THEN "cached" ELSE ast[x]
         /\ Queues'
<1> DEFINE s == ashape[a]
<1>1. TypeOK BY DEF IInv
<1>2. s \in Shape BY DEF IInv, Exist, Alive
<1>3. /\ ast' = [ast EXCEPT ![a] = "cached"] /\ acache' = [acache EXCEPT ![a] = m]
      /\ arrays' = [arrays EXCEPT ![m][s] = Append(@, a)]
  BY DEF Free
<1>4. \A x \in Array : /\ ast'[x] = IF x = a THEN "cached" ELSE ast[x]
                       /\ acache'[x] = IF x = a THEN m ELSE acache[x]
  BY <1>1, <1>3 DEF TypeOK
<1>5. /\ ast' \in [Array -> {"none", "held", "cached", "dead"}]
      /\ acache' \in [Array -> Mem \cup {None}]
  BY <1>1, <1>3 DEF TypeOK
<1>6. /\ arrays' \in [Mem -> [Shape -> Seq(Array)]]
      /\ \A n \in Mem, t \in Shape :
           arrays'[n][t] = IF n = m /\ t = s THEN Append(arrays[m][s], a) ELSE arrays[n][t]
  <2>1. arrays \in [Mem -> [Shape -> Seq(Array)]] BY <1>1 DEF TypeOK
  <2>2. Append(arrays[m][s], a) \in Seq(Array) BY <1>2, <2>1, AppendAt
  <2> HIDE DEF s
  <2> QED BY <1>2, <1>3, <2>1, <2>2
<1>7. ASSUME NEW n \in Mem, NEW t \in Shape, NEW k \in DOMAIN arrays[n][t]
      PROVE  /\ arrays[n][t][k] \in Array /\ arrays[n][t][k] # a
             /\ ast'[arrays[n][t][k]] = "cached"
             /\ acache'[arrays[n][t][k]] = n /\ ashape'[arrays[n][t][k]] = t
             /\ \A l \in DOMAIN arrays[n][t] : arrays[n][t][l] = arrays[n][t][k] => l = k
  <2>1. /\ ast[arrays[n][t][k]] = "cached"
        /\ acache[arrays[n][t][k]] = n /\ ashape[arrays[n][t][k]] = t
        /\ \A l \in DOMAIN arrays[n][t] : arrays[n][t][l] = arrays[n][t][k] => l = k
    BY DEF IInv, Queues
  <2>2. arrays[n][t] \in Seq(Array) BY <1>1 DEF TypeOK
  <2>3. arrays[n][t][k] \in Array /\ arrays[n][t][k] # a BY <2>1, <2>2
  <2> QED BY <1>4, <2>1, <2>3
<1>8. ASSUME NEW k \in DOMAIN arrays'[m][s]
      PROVE  /\ ast'[arrays'[m][s][k]] = "cached"
             /\ acache'[arrays'[m][s][k]] = m /\ ashape'[arrays'[m][s][k]] = s
             /\ \A l \in DOMAIN arrays'[m][s] : arrays'[m][s][l] = arrays'[m][s][k] => l = k
  <2> DEFINE q == arrays[m][s]
  <2>1. q \in Seq(Array) BY <1>1, <1>2 DEF TypeOK
  <2>2. arrays'[m][s] = Append(q, a) BY <1>2, <1>6
  <2>3. /\ DOMAIN arrays'[m][s] = 1 .. Len(q) + 1 /\ Len(q) \in Nat /\ DOMAIN q = 1 .. Len(q)
        /\ \A l \in 1 .. Len(q) : arrays'[m][s][l] = q[l]
        /\ arrays'[m][s][Len(q) + 1] = a
    BY <2>1, <2>2, AppendAt
  <2>4. /\ \A l \in 1 .. Len(q) : /\ q[l] # a /\ ast'[q[l]] = "cached"
                                  /\ acache'[q[l]] = m /\ ashape'[q[l]] = s
        /\ \A l, j \in 1 .. Len(q) : q[l] = q[j] => l = j
    BY <1>2, <1>7, <2>3
  <2>5. ast'[a] = "cached" /\ acache'[a] = m /\ ashape'[a] = s BY <1>4
  <2> HIDE DEF q, s
  <2>6. CASE k \in 1 .. Len(q) BY <2>3, <2>4, <2>6
  <2>7. CASE k = Len(q) + 1 BY <2>3, <2>4, <2>5, <2>7
  <2> QED BY <1>8, <2>3, <2>6, <2>7
<1> HIDE DEF s
<1>9. \A n \in Mem, t \in Shape : arrays'[n][t] = arrays[n][t] \/ (n = m /\ t = s) BY <1>6
<1>10. Queues' BY <1>7, <1>8, <1>9 DEF Queues
<1> QED BY <1>4, <1>5, <1>6, <1>10

\* The copy is launched; the source goes to a cache or stays with the program.
LEMMA MoveFinishStep ==
  ASSUME IInv, MoveFinish
  PROVE  IInv'
<1> DEFINE a == call.src
           b == call.dst
           p == launched + 1
           G == Precondition(a) \cup Precondition(b)
<1>1. /\ TypeOK /\ call.phase = "copy" /\ a \in Array /\ b \in Array /\ a # b
      /\ ast[a] = "held" /\ ast[b] = "held"
  <2>1. TypeOK /\ call.phase = "copy" BY DEF MoveFinish, IInv
  <2>2. a \in Array /\ b \in Array /\ a # b /\ ast[b] = "held" BY <2>1 DEF IInv, Calls
  <2>3. a # None BY <2>2, Domains
  <2> QED BY <2>1, <2>2, <2>3 DEF IInv, Calls
<1>2. Alive(a) /\ Alive(b) BY <1>1 DEF Alive
<1>3. /\ tile[a] \in Inst /\ tile[b] \in Inst
      /\ tile[a] # None /\ tile[b] # None
      /\ \A x \in Array : Alive(x) /\ tile[x] = tile[b] => x = b
  BY <1>1, <1>2, Domains DEF IInv, Exist, Apart
<1>4. /\ Precondition(a) \in SUBSET Op /\ Precondition(b) \in SUBSET Op /\ G \in SUBSET Op
      /\ val[a] \in Op \cup {None}
  BY <1>1 DEF TypeOK, Precondition
<1>5. Issue(tile[a], tile[b], G, val[a]) BY DEF MoveFinish
<1>6. /\ p \in Op /\ launched' \in 0 .. NOps
      /\ from' \in [Op -> Inst \cup {None}] /\ to' \in [Op -> Inst \cup {None}]
      /\ opre' \in [Op -> SUBSET Op]
      /\ ost' \in [Op -> {"none", "waiting", "running", "done"}]
      /\ want' \in [Op -> Op \cup {None}]
      /\ \A o \in Op : ost'[o] # "none" <=> o <= launched'
  BY <1>3, <1>4, <1>5, IssueTypes
<1>7. /\ tileCache' = tileCache /\ ist' = ist /\ imem' = imem /\ ishape' = ishape /\ doom' = doom
      /\ data' = data /\ ashape' = ashape /\ tile' = tile /\ nextId' = nextId
      /\ tiles' = tiles /\ call' = Idle
  BY DEF MoveFinish, instVars
<1>8. /\ ast' \in [Array -> {"none", "held", "cached", "dead"}]
      /\ acache' \in [Array -> Mem \cup {None}]
      /\ arrays' \in [Mem -> [Shape -> Seq(Array)]]
      /\ \A x \in Array : (ast'[x] = "none" <=> ast[x] = "none") /\ (Alive(x)' <=> Alive(x))
      /\ Queues'
  <2>1. CASE call.save = None
    <3>1. ast' = ast /\ acache' = acache /\ arrays' = arrays BY <2>1 DEF MoveFinish
    <3>2. Queues' BY <1>7, <3>1 DEF IInv, Queues
    <3> QED BY <1>1, <3>1, <3>2 DEF TypeOK, Alive
  <2>2. CASE call.save # None
    <3>1. Free(a, call.save) BY <2>2 DEF MoveFinish
    <3>2. call.save \in Mem BY <1>1, <2>2 DEF TypeOK
    <3> HIDE DEF a
    <3>3. /\ ast' \in [Array -> {"none", "held", "cached", "dead"}]
          /\ acache' \in [Array -> Mem \cup {None}]
          /\ arrays' \in [Mem -> [Shape -> Seq(Array)]]
          /\ \A x \in Array : ast'[x] = IF x = a THEN "cached" ELSE ast[x]
          /\ Queues'
      BY <1>1, <1>7, <3>1, <3>2, PutInCache
    <3> QED BY <1>1, <3>3 DEF Alive
  <2> QED BY <2>1, <2>2
<1>9. \A x \in Array : /\ rw'[x] = IF x \in {a, b} THEN rw[x] \cup {p} ELSE rw[x]
                       /\ war'[x] = IF x \in {a, b} THEN {} ELSE war[x]
                       /\ val'[x] = IF x = b THEN val[a] ELSE val[x]
                       /\ id'[x] = IF x = b THEN id[a] ELSE id[x]
  BY <1>1 DEF MoveFinish, TypeOK
<1>10. \A x \in Array : given'[x] = IF x = a THEN TRUE ELSE IF x = b THEN given[a] ELSE given[x]
  BY <1>1 DEF MoveFinish, TypeOK
<1>11. TypeOK'
  <2>1. rw' \in [Array -> SUBSET Op]
    <3>1. rw' = [x \in Array |-> IF x \in {a, b} THEN rw[x] \cup {p} ELSE rw[x]]
      BY DEF MoveFinish
    <3>2. \A x \in Array : rw[x] \in SUBSET Op BY <1>1 DEF TypeOK
    <3> HIDE DEF p, a, b
    <3> QED BY <1>6, <3>1, <3>2
  <2>2. hasRw' \in [Array -> BOOLEAN] BY <1>1 DEF MoveFinish, TypeOK
  <2>3. /\ war' \in [Array -> SUBSET Op] /\ hasWar' \in [Array -> BOOLEAN]
    BY <1>1 DEF MoveFinish, TypeOK
  <2>4. val' \in [Array -> Op \cup {None}] /\ id' \in [Array -> 0 .. NArrays]
    BY <1>1 DEF MoveFinish, TypeOK
  <2>5. given' \in [Array -> BOOLEAN] BY <1>1 DEF MoveFinish, TypeOK
  <2>6. call' \in [phase : {"idle", "try", "retry", "copy"}, mem : Mem \cup {None},
                   shape : Shape \cup {None}, src : Array \cup {None},
                   dst : Array \cup {None}, save : Mem \cup {None}]
    BY <1>7 DEF Idle
  <2> QED BY <1>1, <1>6, <1>7, <1>8, <2>1, <2>2, <2>3, <2>4, <2>5, <2>6 DEF TypeOK
<1>12. \A x \in Array : Alive(x)' <=> Alive(x) BY <1>8
<1>13. Dynamic'
  <2> DEFINE W == {a, b}
  <2>1. Joins(p, G, tile[b], W, {}) BY <1>1, <1>2, <1>9 DEF Joins, Precondition
  <2>2. \A x \in Array : Alive(x) /\ tile[x] = tile[b] =>
          val'[x] = IF tile[a] = None THEN p ELSE val[a]
    BY <1>3, <1>9
  <2>3. \A x \in Array : Alive(x) /\ tile[x] # tile[b] => val'[x] = val[x] BY <1>9
  <2>4. (\E x \in W \cup {} : tile[a] = tile[x]) /\ \E x \in W : tile[b] = tile[x]
    OBVIOUS
  <2>5. val[a] # None => \E x \in Array : Alive(x) /\ tile[x] = tile[a] /\ val[x] = val[a]
    BY <1>1, <1>2
  <2>6. W \in SUBSET Array /\ {} \in SUBSET Array BY <1>1
  <2>7. p \in Op /\ p = launched + 1 BY <1>6
  <2> HIDE DEF p, a, b, G, W
  <2> QED BY <1>5, <1>7, <1>12, <2>1, <2>2, <2>3, <2>4, <2>5, <2>6, <2>7, IssueKeeps
<1> HIDE DEF a, b, p, G
<1>14. Counts'
  <2>1. \A x \in Array : ast'[x] # "none" <=> x < nextId' BY <1>7, <1>8 DEF IInv, Counts
  <2>2. \E n \in 0 .. NInst : \A i \in Inst : ist'[i] # "none" <=> i <= n BY <1>7 DEF IInv, Counts
  <2> QED BY <1>6, <2>1, <2>2 DEF Counts
<1>15. Exist'
  <2>1. \A x \in Array : ast'[x] = "none" => war'[x] = {} /\ val'[x] = None
    <3> SUFFICES ASSUME NEW x \in Array, ast'[x] = "none" PROVE war'[x] = {} /\ val'[x] = None
      OBVIOUS
    <3>1. ast[x] = "none" /\ x # b BY <1>1, <1>8
    <3>2. war[x] = {} /\ val[x] = None BY <3>1 DEF IInv, Exist
    <3> QED BY <1>9, <3>1, <3>2
  <2> QED BY <1>7, <1>12, <2>1 DEF IInv, Exist
<1>16. Apart' BY <1>7, <1>12 DEF IInv, Apart
<1>17. Kept' BY <1>7, <1>12 DEF IInv, Kept, Owns
<1>18. Calls' BY <1>7 DEF Calls, Idle
<1>19. Ids'
  <2>1. \A x \in Array : id'[x] < nextId' BY <1>1, <1>7, <1>9 DEF IInv, Ids
  <2>2. ASSUME NEW x \in Array, NEW y \in Array, Alive(x), Alive(y), x # y, id'[x] = id'[y],
               ~given'[x], ~given'[y]
        PROVE  FALSE
    <3>1. x # a /\ y # a BY <1>10, <2>2
    <3>2. \A w, z \in Array : Alive(w) /\ Alive(z) /\ w # z /\ id[w] = id[z] => given[w] \/ given[z]
      BY DEF IInv, Ids
    <3>3. CASE x = b
      <4>1. id[a] = id[y] /\ ~given[a] /\ ~given[y] BY <1>9, <1>10, <2>2, <3>1, <3>3
      <4> QED BY <1>1, <1>2, <2>2, <3>1, <3>2, <4>1
    <3>4. CASE y = b
      <4>1. id[a] = id[x] /\ ~given[a] /\ ~given[x] BY <1>9, <1>10, <2>2, <3>1, <3>4
      <4> QED BY <1>1, <1>2, <2>2, <3>1, <3>2, <4>1
    <3>5. CASE x # b /\ y # b BY <1>9, <1>10, <2>2, <3>1, <3>2, <3>5
    <3> QED BY <3>3, <3>4, <3>5
  <2> QED BY <1>12, <2>1, <2>2 DEF Ids
<1> QED BY <1>8, <1>11, <1>13, <1>14, <1>15, <1>16, <1>17, <1>18, <1>19 DEF IInv, Dynamic

-----------------------------------------------------------------------------
(***************************************************************************)
(* Creating an array.                                                      *)
(***************************************************************************)

\* What Create or MoveToMemory has found out when it asks for a tile.
CallType == [phase : {"idle", "try", "retry", "copy"}, mem : Mem \cup {None},
             shape : Shape \cup {None}, src : Array \cup {None},
             dst : Array \cup {None}, save : Mem \cup {None}]
Asked(c) ==
  /\ c \in CallType /\ c.phase \in {"try", "retry"}
  /\ c.mem \in Mem /\ c.shape \in Shape /\ c.dst = None
  /\ c.src # None => ast[c.src] = "held"

\* A new array gets instance i, which is free after ev.
LEMMA NewArray ==
  ASSUME IInv, NEW c, Asked(c), NEW i \in Inst, NEW ev \in SUBSET Op,
         Construct(c, i, ev), tileCache' = tileCache, doom' = doom, data' = data,
         ist' \in [Inst -> {"none", "live", "lost", "doomed", "gone"}],
         imem' \in [Inst -> Mem \cup {None}], ishape' \in [Inst -> Shape \cup {None}],
         ist'[i] = "live", \A j \in Inst : j # i => ist'[j] = ist[j],
         \E n \in 0 .. NInst : \A j \in Inst : ist'[j] # "none" <=> j <= n,
         \A x \in Array : Alive(x) => tile[x] # i,
         tiles' \in Seq([inst : Inst, after : SUBSET Op]),
         \A k \in DOMAIN tiles' : tiles'[k].inst # i /\ \E l \in DOMAIN tiles : tiles[l] = tiles'[k],
         \A k, l \in DOMAIN tiles' : tiles'[k].inst = tiles'[l].inst => k = l,
         \A l \in DOMAIN tiles : tiles[l].inst # i => \E k \in DOMAIN tiles' : tiles'[k] = tiles[l],
         tiles = <<>> => tiles' = <<>>,
         \A o \in Op : Using(o, i) => Covered(o, ev)
  PROVE  IInv'
<1> DEFINE a == nextId
<1>1. TypeOK /\ NArrays \in Nat BY Domains DEF IInv
<1>2. /\ a \in Array
      /\ ast' = [ast EXCEPT ![a] = "held"]
      /\ ashape' = [ashape EXCEPT ![a] = c.shape]
      /\ tile' = [tile EXCEPT ![a] = i]
      /\ id' = [id EXCEPT ![a] = a]
      /\ nextId' = a + 1
      /\ rw' = [rw EXCEPT ![a] = ev]
      /\ hasRw' = [hasRw EXCEPT ![a] = TRUE]
      /\ call' = IF c.src = None THEN Idle ELSE [c EXCEPT !.phase = "copy", !.dst = a]
  BY NextArray DEF Construct, NextId, Proceed
<1>3. /\ acache' = acache /\ given' = given /\ war' = war /\ hasWar' = hasWar /\ val' = val /\ arrays' = arrays
      /\ launched' = launched /\ from' = from /\ to' = to /\ opre' = opre /\ ost' = ost /\ want' = want
  BY DEF Construct, opVars
<1>4. a \in Nat /\ ast[a] = "none" /\ ~Alive(a) BY <1>2, NextArray
<1>5. \A x \in Array : /\ ast'[x] = IF x = a THEN "held" ELSE ast[x]
                       /\ ashape'[x] = IF x = a THEN c.shape ELSE ashape[x]
                       /\ tile'[x] = IF x = a THEN i ELSE tile[x]
                       /\ id'[x] = IF x = a THEN a ELSE id[x]
                       /\ rw'[x] = IF x = a THEN ev ELSE rw[x]
  BY <1>1, <1>2 DEF TypeOK
<1>6. /\ c \in CallType /\ c.mem \in Mem /\ c.shape \in Shape /\ c.dst = None
      /\ c.src \in Array \cup {None}
      /\ c.src # None => ast[c.src] = "held"
  BY DEF Asked, CallType
<1>7. /\ call' \in CallType
      /\ call'.phase = IF c.src = None THEN "idle" ELSE "copy"
      /\ c.src = None => call' = Idle
      /\ c.src # None => call'.src = c.src /\ call'.dst = a
  <2>1. CASE c.src = None BY <1>2, <2>1 DEF Idle, CallType
  <2>2. CASE c.src # None
    <3>1. call' = [c EXCEPT !.phase = "copy", !.dst = a] BY <1>2, <2>2
    <3> QED BY <1>2, <1>6, <2>2, <3>1 DEF CallType
  <2> QED BY <2>1, <2>2
<1> HIDE DEF a
<1>8. TypeOK'
  <2>1. /\ ast' \in [Array -> {"none", "held", "cached", "dead"}]
        /\ ashape' \in [Array -> Shape \cup {None}]
        /\ tile' \in [Array -> Inst \cup {None}]
    BY <1>1, <1>2, <1>6 DEF TypeOK
  <2>2. id' \in [Array -> 0 .. NArrays] /\ nextId' \in 1 .. NArrays + 1
    <3>1. a \in 0 .. NArrays /\ a + 1 \in 1 .. NArrays + 1 BY <1>1, <1>2, <1>4 DEF Array
    <3> QED BY <1>1, <1>2, <3>1 DEF TypeOK
  <2>3. rw' \in [Array -> SUBSET Op] /\ hasRw' \in [Array -> BOOLEAN] BY <1>1, <1>2 DEF TypeOK
  <2> QED BY <1>1, <1>3, <1>7, <2>1, <2>2, <2>3 DEF TypeOK, CallType
<1>9. \A x \in Array : Alive(x)' <=> x = a \/ Alive(x) BY <1>5 DEF Alive
<1>10. \A k \in DOMAIN tiles' : /\ tiles'[k].inst \in Inst /\ tiles'[k].inst # i
                                /\ \E l \in DOMAIN tiles : tiles[l] = tiles'[k]
  BY TileEntry
<1>11. Dynamic'
  <2>1. \A o \in Op, j \in Inst : Using(o, j) =>
          /\ data'[j] = data[j] /\ ist'[j] \in {"live", "lost", "doomed"}
          /\ ist'[j] = "doomed" => Covered(o, doom'[j])
    <3>1. \A o \in Op, j \in Inst : Using(o, j) => ist[j] \in {"live", "lost", "doomed"} BY DEF IInv, Ops
    <3>2. \A o \in Op, j \in Inst : ist[j] = "doomed" /\ Using(o, j) => Covered(o, doom[j])
      BY DEF IInv, Guarded
    <3> QED BY <3>1, <3>2
  <2>2. \A o \in Op : \A k \in DOMAIN tiles' : Using(o, tiles'[k].inst) => Covered(o, tiles'[k].after)
    BY <1>10 DEF IInv, Guarded
  <2>3. ASSUME NEW x \in Array, Alive(x)'
        PROVE  \/ /\ Alive(x) /\ tile'[x] = tile[x] /\ rw'[x] = rw[x] /\ war'[x] = war[x]
                  /\ val'[x] = val[x] /\ data'[tile[x]] = data[tile[x]]
               \/ val'[x] = None /\ \A o \in Op : Using(o, tile'[x]) => Covered(o, rw'[x])
    <3>1. CASE x = a
      <4>1. val'[x] = None BY <1>2, <1>3, <1>4, <3>1 DEF IInv, Exist
      <4> QED BY <1>5, <3>1, <4>1
    <3>2. CASE x # a BY <1>3, <1>5, <1>9, <2>3, <3>2
    <3> QED BY <3>1, <3>2
  <2> QED BY <1>3, <2>1, <2>2, <2>3, Handover
<1>12. Counts'
  <2>1. \A x \in Array : ast'[x] # "none" <=> x < nextId'
    <3>1. \A x \in Array : ast[x] # "none" <=> x < a BY DEF IInv, Counts, a
    <3>2. \A x \in Array : x < a + 1 <=> x = a \/ x < a BY <1>4, Domains
    <3> QED BY <1>2, <1>5, <3>1, <3>2
  <2>2. \A o \in Op : ost'[o] # "none" <=> o <= launched' BY <1>3 DEF IInv, Counts
  <2> QED BY <2>1, <2>2 DEF Counts
<1>13. Exist'
  <2>1. \A x \in Array : ast'[x] = "none" => war'[x] = {} /\ val'[x] = None
    BY <1>3, <1>5 DEF IInv, Exist
  <2>2. ASSUME NEW x \in Array, Alive(x)'
        PROVE  ashape'[x] \in Shape /\ tile'[x] \in Inst /\ ist'[tile'[x]] = "live"
    <3>1. CASE x = a BY <1>5, <1>6, <3>1
    <3>2. CASE x # a
      <4>1. Alive(x) /\ ashape[x] \in Shape /\ tile[x] \in Inst /\ ist[tile[x]] = "live"
        BY <1>9, <2>2, <3>2 DEF IInv, Exist
      <4> QED BY <1>5, <3>2, <4>1
    <3> QED BY <3>1, <3>2
  <2>3. \A k \in DOMAIN tiles' : ist'[tiles'[k].inst] = "live" BY <1>10 DEF IInv, Exist
  <2>4. tileCache' \/ tiles' = <<>> BY DEF IInv, Exist
  <2> QED BY <2>1, <2>2, <2>3, <2>4 DEF Exist
<1>14. Apart'
  <2>1. \A x, y \in Array : Alive(x)' /\ Alive(y)' /\ tile'[x] = tile'[y] => x = y
    <3>1. \A x, y \in Array : Alive(x) /\ Alive(y) /\ tile[x] = tile[y] => x = y BY DEF IInv, Apart
    <3> QED BY <1>5, <1>9, <3>1
  <2>2. ASSUME NEW k \in DOMAIN tiles', NEW x \in Array, Alive(x)' PROVE tile'[x] # tiles'[k].inst
    <3>1. CASE x = a BY <1>5, <1>10, <3>1
    <3>2. CASE x # a
      <4>1. Alive(x) /\ tile'[x] = tile[x] BY <1>5, <1>9, <2>2, <3>2
      <4>2. PICK l \in DOMAIN tiles : tiles[l] = tiles'[k] BY <1>10
      <4> QED BY <4>1, <4>2 DEF IInv, Apart
    <3> QED BY <3>1, <3>2
  <2> QED BY <2>1, <2>2 DEF Apart
<1>15. Kept'
  <2> SUFFICES ASSUME NEW j \in Inst, ist'[j] = "live"
               PROVE  (\E x \in Array : Owns(x, j)') \/ \E k \in DOMAIN tiles' : tiles'[k].inst = j
    BY DEF Kept
  <2>1. CASE j = i
    <3>1. \A x \in Array : x = a => Alive(x)' /\ tile'[x] = j BY <1>5, <1>9, <2>1
    <3> QED BY <1>2, <3>1 DEF Owns
  <2>2. CASE j # i
    <3>1. (\E x \in Array : Owns(x, j)) \/ \E k \in DOMAIN tiles : tiles[k].inst = j
      BY <2>2 DEF IInv, Kept
    <3>2. CASE \E x \in Array : Owns(x, j)
      <4>1. PICK x \in Array : Alive(x) /\ tile[x] = j BY <3>2 DEF Owns
      <4>2. x # a BY <1>4, <4>1
      <4>3. Owns(x, j)' BY <1>5, <1>9, <4>1, <4>2 DEF Owns
      <4> QED BY <4>3
    <3>3. CASE \E k \in DOMAIN tiles : tiles[k].inst = j BY <2>2, <3>3
    <3> QED BY <3>1, <3>2, <3>3
  <2> QED BY <2>1, <2>2
<1>16. Queues'
  <2> SUFFICES ASSUME NEW m \in Mem, NEW s \in Shape, NEW k \in DOMAIN arrays[m][s]
               PROVE  /\ ast'[arrays[m][s][k]] = "cached"
                      /\ acache'[arrays[m][s][k]] = m /\ ashape'[arrays[m][s][k]] = s
                      /\ \A l \in DOMAIN arrays[m][s] : arrays[m][s][l] = arrays[m][s][k] => l = k
    BY <1>3 DEF Queues
  <2>1. /\ ast[arrays[m][s][k]] = "cached"
        /\ acache[arrays[m][s][k]] = m /\ ashape[arrays[m][s][k]] = s
        /\ \A l \in DOMAIN arrays[m][s] : arrays[m][s][l] = arrays[m][s][k] => l = k
    BY DEF IInv, Queues
  <2>2. arrays[m][s] \in Seq(Array) BY <1>1 DEF TypeOK
  <2>3. arrays[m][s][k] \in Array BY <2>2
  <2>4. arrays[m][s][k] # a BY <1>4, <2>1
  <2> QED BY <1>3, <1>5, <2>1, <2>3, <2>4
<1>17. Calls'
  <2>1. CASE c.src = None BY <1>7, <2>1 DEF Calls, Idle
  <2>2. CASE c.src # None
    <3>1. /\ c.src \in Array /\ c.src # a /\ ast'[c.src] = "held" /\ ast'[a] = "held"
      BY <1>2, <1>4, <1>5, <1>6, <2>2
    <3> QED BY <1>2, <1>6, <1>7, <2>2, <3>1 DEF Calls
  <2> QED BY <2>1, <2>2
<1>18. Ids'
  <2>1. \A x \in Array : id[x] < a /\ id[x] \in Nat BY <1>1 DEF IInv, Ids, a, TypeOK
  <2>2. \A x \in Array : id'[x] < nextId' BY <1>2, <1>4, <1>5, <2>1
  <2>3. \A x, y \in Array : Alive(x) /\ Alive(y) /\ x # y /\ id[x] = id[y] => given[x] \/ given[y]
    BY DEF IInv, Ids
  <2>4. \A x \in Array : x # a => id'[x] # a /\ id'[x] = id[x] BY <1>4, <1>5, <2>1
  <2>5. ASSUME NEW x \in Array, NEW y \in Array, Alive(x)', Alive(y)', x # y, id'[x] = id'[y]
        PROVE  given'[x] \/ given'[y]
    <3>1. x # a /\ y # a BY <1>5, <2>4, <2>5
    <3> QED BY <1>3, <1>9, <2>3, <2>4, <2>5, <3>1
  <2> QED BY <2>2, <2>5 DEF Ids
<1> QED BY <1>8, <1>11, <1>12, <1>13, <1>14, <1>15, <1>16, <1>17, <1>18 DEF IInv, Dynamic

\* Nothing but the call in progress changes.
LEMMA OnlyCall ==
  ASSUME IInv, call' \in CallType, Calls',
         tileCache' = tileCache, ist' = ist, imem' = imem, ishape' = ishape, doom' = doom,
         data' = data, UNCHANGED arrayVars, UNCHANGED storeVars, tiles' = tiles, arrays' = arrays,
         UNCHANGED opVars
  PROVE  IInv'
<1>1. ast' = ast /\ acache' = acache /\ ashape' = ashape /\ tile' = tile /\ id' = id /\ given' = given /\ nextId' = nextId
  BY DEF arrayVars
<1>2. rw' = rw /\ hasRw' = hasRw /\ war' = war /\ hasWar' = hasWar /\ val' = val BY DEF storeVars
<1>3. launched' = launched /\ from' = from /\ to' = to /\ opre' = opre /\ ost' = ost /\ want' = want
  BY DEF opVars
<1>4. TypeOK' BY <1>1, <1>2, <1>3 DEF IInv, TypeOK, CallType
<1>5. \A a : Alive(a)' <=> Alive(a) BY <1>1 DEF Alive
<1>6. Dynamic'
  <2>1. \A o \in Op, i \in Inst : Using(o, i) =>
          /\ data'[i] = data[i] /\ ist'[i] \in {"live", "lost", "doomed"}
          /\ ist'[i] = "doomed" => Covered(o, doom'[i])
    BY DEF IInv, Ops, Guarded
  <2>2. \A o \in Op : \A k \in DOMAIN tiles' : Using(o, tiles'[k].inst) => Covered(o, tiles'[k].after)
    BY DEF IInv, Guarded
  <2> QED BY <1>1, <1>2, <1>3, <1>5, <2>1, <2>2, Handover
<1>7. Counts' BY <1>1, <1>3 DEF IInv, Counts
<1>8. Exist' BY <1>1, <1>2, <1>5 DEF IInv, Exist
<1>9. Apart' BY <1>1, <1>5 DEF IInv, Apart
<1>10. Kept' BY <1>1, <1>5 DEF IInv, Kept, Owns
<1>11. Queues' BY <1>1 DEF IInv, Queues
<1>12. Ids' BY <1>1, <1>5 DEF IInv, Ids
<1> QED BY <1>4, <1>6, <1>7, <1>8, <1>9, <1>10, <1>11, <1>12 DEF IInv, Dynamic

\* ArrayTile::Create, with or without a cached tile.
LEMMA RequestStep ==
  ASSUME IInv, NEW c, Asked(c), c.phase = "try", Request(c)
  PROVE  IInv'
<1>1. TypeOK BY DEF IInv
<1>2. CASE Cached(c.shape) = {}
  <2>1. /\ call' = c /\ tileCache' = tileCache /\ ist' = ist /\ imem' = imem /\ ishape' = ishape
        /\ doom' = doom /\ data' = data /\ UNCHANGED arrayVars /\ UNCHANGED storeVars
        /\ tiles' = tiles /\ arrays' = arrays /\ UNCHANGED opVars
    BY <1>2 DEF Request, instVars
  <2>2. ast' = ast BY <2>1 DEF arrayVars
  <2>3. Calls' BY <2>1, <2>2 DEF Calls, Asked
  <2>4. call' \in CallType /\ call'.dst = None BY <2>1 DEF Asked
  <2> QED BY <2>1, <2>3, <2>4, OnlyCall
<1>3. CASE Cached(c.shape) # {}
  <2> DEFINE k == Oldest(c.shape)
             i == tiles[k].inst
             n == Len(tiles)
  <2>1. Construct(c, i, tiles[k].after) /\ tiles' = RemoveAt(tiles, k)
    BY <1>3 DEF Request, TileReady, TilesLeft
  <2>2. tileCache' = tileCache /\ ist' = ist /\ imem' = imem /\ ishape' = ishape /\ doom' = doom /\ data' = data
    BY <1>3 DEF Request, instVars
  <2>3. DOMAIN tiles = 1 .. n /\ n \in Nat /\ tiles \in Seq([inst : Inst, after : SUBSET Op])
    BY <1>1 DEF TypeOK
  <2>4. k \in Cached(c.shape)
    <3>1. Cached(c.shape) \subseteq Nat BY <2>3 DEF Cached
    <3>2. \E l \in Cached(c.shape) : \A j \in Cached(c.shape) : l <= j BY <1>3, <3>1, LeastOf
    <3> QED BY <3>2 DEF Oldest
  <2>5. k \in 1 .. n /\ KeyOf[ishape[i]] = KeyOf[c.shape] BY <2>3, <2>4 DEF Cached
  <2> HIDE DEF k
  <2>6. i \in Inst /\ tiles[k].after \in SUBSET Op BY <2>3, <2>5, TileEntry
  <2>7. /\ tiles' \in Seq([inst : Inst, after : SUBSET Op]) /\ DOMAIN tiles' = 1 .. n - 1
        /\ \A l \in 1 .. n - 1 : tiles'[l] = IF l < k THEN tiles[l] ELSE tiles[l + 1]
    <3>1. /\ RemoveAt(tiles, k) \in Seq([inst : Inst, after : SUBSET Op])
          /\ Len(RemoveAt(tiles, k)) = n - 1
          /\ \A l \in 1 .. n - 1 : RemoveAt(tiles, k)[l] = IF l < k THEN tiles[l] ELSE tiles[l + 1]
      BY <2>3, <2>5, RemoveAtAt
    <3> QED BY <2>1, <3>1
  <2>8. \A l, j \in 1 .. n : tiles[l].inst = tiles[j].inst => l = j BY <2>3 DEF IInv, Apart
  <2> HIDE DEF n
  <2>9. ASSUME NEW l \in DOMAIN tiles'
        PROVE  tiles'[l].inst # i /\ \E j \in DOMAIN tiles : tiles[j] = tiles'[l]
    <3>1. PICK j \in 1 .. n : j # k /\ tiles'[l] = tiles[j]
      <4>1. CASE l < k BY <2>3, <2>5, <2>7, <4>1
      <4>2. CASE ~(l < k)
        <5>1. l + 1 \in 1 .. n /\ l + 1 # k BY <2>3, <2>5, <2>7, <4>2
        <5> QED BY <2>7, <4>2, <5>1
      <4> QED BY <4>1, <4>2
    <3> QED BY <2>3, <2>5, <2>8, <3>1
  <2>10. ASSUME NEW l \in DOMAIN tiles', NEW j \in DOMAIN tiles', tiles'[l].inst = tiles'[j].inst
         PROVE  l = j
    <3>1. l \in 1 .. n - 1 /\ j \in 1 .. n - 1 BY <2>7
    <3>2. l \in 1 .. n /\ l + 1 \in 1 .. n /\ j \in 1 .. n /\ j + 1 \in 1 .. n BY <2>3, <3>1
    <3>3. (IF l < k THEN l ELSE l + 1) = (IF j < k THEN j ELSE j + 1)
      BY <2>7, <2>8, <2>10, <3>1, <3>2
    <3> QED BY <2>5, <3>1, <3>3
  <2>11. ASSUME NEW l \in DOMAIN tiles, tiles[l].inst # i
         PROVE  \E j \in DOMAIN tiles' : tiles'[j] = tiles[l]
    <3>1. l \in 1 .. n /\ l # k BY <2>3, <2>11
    <3>2. CASE l < k
      <4>1. l \in 1 .. n - 1 BY <2>3, <2>5, <3>1, <3>2
      <4> QED BY <2>7, <3>2, <4>1
    <3>3. CASE ~(l < k)
      <4>1. l - 1 \in 1 .. n - 1 /\ ~(l - 1 < k) /\ (l - 1) + 1 = l BY <2>3, <2>5, <3>1, <3>3
      <4> QED BY <2>7, <4>1
    <3> QED BY <3>2, <3>3
  <2>12. ist[i] = "live" BY <2>3, <2>5, <2>6 DEF IInv, Exist
  <2>13. \A x \in Array : Alive(x) => tile[x] # i BY <2>3, <2>5 DEF IInv, Apart
  <2>14. \A o \in Op : Using(o, i) => Covered(o, tiles[k].after) BY <2>3, <2>5 DEF IInv, Guarded
  <2>15. tiles = <<>> => tiles' = <<>> BY <2>3, <2>5 DEF n
  <2>16. \E x \in 0 .. NInst : \A j \in Inst : ist'[j] # "none" <=> j <= x BY <2>2 DEF IInv, Counts
  <2>17. /\ ist' \in [Inst -> {"none", "live", "lost", "doomed", "gone"}]
         /\ imem' \in [Inst -> Mem \cup {None}] /\ ishape' \in [Inst -> Shape \cup {None}]
    BY <1>1, <2>2 DEF TypeOK
  <2> HIDE DEF i
  <2> QED BY <2>1, <2>2, <2>6, <2>7, <2>9, <2>10, <2>11, <2>12, <2>13, <2>14, <2>15,
             <2>16, <2>17, NewArray
<1> QED BY <1>2, <1>3

\* A successful allocation keeps the invariant.
LEMMA AllocateStep ==
  ASSUME IInv, Allocate
  PROVE  IInv'
<1> DEFINE i == Cardinality({j \in Inst : ist[j] # "none"}) + 1
<1>1. /\ TypeOK /\ i \in Inst /\ call.phase \in {"try", "retry"}
      /\ ist' = [ist EXCEPT ![i] = "live"] /\ imem' = [imem EXCEPT ![i] = call.mem]
      /\ ishape' = [ishape EXCEPT ![i] = call.shape] /\ Construct(call, i, {})
      /\ tileCache' = tileCache /\ doom' = doom /\ data' = data /\ tiles' = tiles
  BY DEF Allocate, IInv
<1>2. ist[i] = "none" /\ \A j \in Inst : ist[j] # "none" \/ j = i <=> j <= i BY <1>1, NextInst
<1> HIDE DEF i
<1>3. Asked(call) /\ call.mem \in Mem /\ call.shape \in Shape
  BY <1>1 DEF IInv, TypeOK, Calls, Asked, CallType
<1>4. /\ ist' \in [Inst -> {"none", "live", "lost", "doomed", "gone"}]
      /\ imem' \in [Inst -> Mem \cup {None}] /\ ishape' \in [Inst -> Shape \cup {None}]
      /\ ist'[i] = "live" /\ \A j \in Inst : j # i => ist'[j] = ist[j]
  BY <1>1, <1>3 DEF TypeOK
<1>5. \E n \in 0 .. NInst : \A j \in Inst : ist'[j] # "none" <=> j <= n
  <2>1. i \in 0 .. NInst BY <1>1, Domains DEF Inst
  <2>2. \A j \in Inst : ist'[j] # "none" <=> j <= i BY <1>2, <1>4
  <2> QED BY <2>1, <2>2
<1>6. \A x \in Array : Alive(x) => tile[x] # i BY <1>2 DEF IInv, Exist
<1>7. \A k \in DOMAIN tiles : tiles[k].inst # i BY <1>2 DEF IInv, Exist
<1>8. \A o \in Op : Using(o, i) => Covered(o, {}) BY <1>1, <1>2 DEF IInv, Ops
<1>9. tiles' \in Seq([inst : Inst, after : SUBSET Op]) BY <1>1 DEF TypeOK
<1>10. \A k, l \in DOMAIN tiles' : tiles'[k].inst = tiles'[l].inst => k = l BY <1>1 DEF IInv, Apart
<1>11. \A k \in DOMAIN tiles' : tiles'[k].inst # i /\ \E l \in DOMAIN tiles : tiles[l] = tiles'[k]
  BY <1>1, <1>7
<1>12. \A l \in DOMAIN tiles : tiles[l].inst # i => \E k \in DOMAIN tiles' : tiles'[k] = tiles[l]
  BY <1>1
<1>13. (tiles = <<>> => tiles' = <<>>) /\ {} \in SUBSET Op BY <1>1
<1>14. /\ Construct(call, i, {}) /\ i \in Inst /\ tileCache' = tileCache /\ doom' = doom
       /\ data' = data
  BY <1>1
<1> QED BY <1>3, <1>4, <1>5, <1>6, <1>8, <1>9, <1>10, <1>11, <1>12, <1>13, <1>14, NewArray

\* The fields of the call when there is none.
LEMMA IdleFields ==
  Idle \in CallType /\ Idle.phase = "idle" /\ Idle.src = None /\ Idle.dst = None
BY DEF Idle, CallType

\* What MoveToMemory asks for.
LEMMA AskedFor ==
  ASSUME NEW c, NEW m \in Mem, NEW s \in Shape, NEW a \in Array \cup {None}, NEW save \in Mem \cup {None},
         c = [Idle EXCEPT !.phase = "try", !.mem = m, !.shape = s, !.src = a, !.save = save],
         a # None => ast[a] = "held"
  PROVE  Asked(c) /\ c.phase = "try" /\ c.mem = m /\ c.shape = s /\ c.src = a /\ c.save = save
<1>1. /\ c \in CallType /\ c.dst = None
      /\ c.phase = "try" /\ c.mem = m /\ c.shape = s /\ c.src = a /\ c.save = save
  BY IdleFields DEF CallType
<1> QED BY <1>1 DEF Asked

\* What Create and Get ask for.
LEMMA PlainCall ==
  ASSUME NEW c, NEW m \in Mem, NEW s \in Shape, c = [Idle EXCEPT !.phase = "try", !.mem = m, !.shape = s]
  PROVE  Asked(c) /\ c.phase = "try"
<1>1. /\ c \in CallType /\ c.dst = None /\ c.src = None
      /\ c.phase = "try" /\ c.mem = m /\ c.shape = s
  BY IdleFields DEF CallType
<1> QED BY <1>1 DEF Asked

\* Create keeps the invariant.
LEMMA CreateStep ==
  ASSUME IInv, NEW m \in Mem, NEW s \in Shape, Create(m, s)
  PROVE  IInv'
<1> DEFINE c == [Idle EXCEPT !.phase = "try", !.mem = m, !.shape = s]
<1>1. Request(c) BY DEF Create
<1>2. Asked(c) /\ c.phase = "try" BY PlainCall
<1> HIDE DEF c
<1> QED BY <1>1, <1>2, RequestStep

\* InstanceCache::Get asks for a tile, or takes an array out of a queue.
LEMMA GetStep ==
  ASSUME IInv, NEW c, Asked(c), c.phase = "try", NEW min \in Nat \ {0}, Get(c, min)
  PROVE  IInv'
<1> DEFINE n == c.mem
           s == c.shape
           q == arrays[n][s]
<1>1. TypeOK /\ c \in CallType /\ n \in Mem /\ s \in Shape /\ c.dst = None BY DEF IInv, Asked
<1>2. c.src # None => c.src \in Array /\ ast[c.src] = "held" BY DEF Asked, CallType
<1>3. q \in Seq(Array) /\ Len(q) \in Nat BY <1>1 DEF TypeOK
<1>4. CASE Len(q) < min
  <2>1. Request(c) BY <1>4 DEF Get
  <2> QED BY <2>1, RequestStep
<1>5. CASE ~(Len(q) < min)
  <2> DEFINE h == Head(q)
  <2>1. /\ arrays' = [arrays EXCEPT ![n][s] = Tail(q)] /\ ast' = [ast EXCEPT ![h] = "held"]
        /\ acache' = [acache EXCEPT ![h] = None]
        /\ call' = IF c.src = None THEN Idle ELSE [c EXCEPT !.phase = "copy", !.dst = h]
        /\ tileCache' = tileCache /\ ist' = ist /\ imem' = imem /\ ishape' = ishape /\ doom' = doom
        /\ data' = data /\ ashape' = ashape /\ tile' = tile /\ id' = id /\ given' = given
        /\ nextId' = nextId /\ UNCHANGED storeVars /\ tiles' = tiles /\ UNCHANGED opVars
    BY <1>5 DEF Get, Proceed, instVars
  <2>2. rw' = rw /\ hasRw' = hasRw /\ war' = war /\ hasWar' = hasWar /\ val' = val BY <2>1 DEF storeVars
  <2>3. launched' = launched /\ from' = from /\ to' = to /\ opre' = opre /\ ost' = ost /\ want' = want
    BY <2>1 DEF opVars
  <2>4. /\ Tail(q) \in Seq(Array) /\ Len(Tail(q)) = Len(q) - 1 /\ Len(q) \in Nat /\ Len(q) >= 1
        /\ \A k \in 1 .. Len(q) - 1 : Tail(q)[k] = q[k + 1]
        /\ h = q[1] /\ h \in Array
    <3>1. Len(q) >= 1 BY <1>3, <1>5
    <3>2. q # <<>> BY <3>1
    <3> HIDE DEF q
    <3> QED BY <1>3, <3>2, TailAt
  <2>5. ast[h] = "cached" /\ acache[h] = n /\ ashape[h] = s BY <1>1, <1>3, <2>4 DEF IInv, Queues
  <2>6. /\ call' \in CallType
        /\ c.src = None => call' = Idle
        /\ c.src # None => call'.phase = "copy" /\ call'.src = c.src /\ call'.dst = h
    <3> HIDE DEF h
    <3>1. CASE c.src = None BY <2>1, <3>1, IdleFields
    <3>2. CASE c.src # None
      <4>1. call' = [c EXCEPT !.phase = "copy", !.dst = h] BY <2>1, <3>2
      <4> QED BY <1>1, <2>4, <3>2, <4>1 DEF CallType
    <3> QED BY <3>1, <3>2
  <2> HIDE DEF h, q, s, n
  <2>7. \A y \in Array : /\ ast'[y] = IF y = h THEN "held" ELSE ast[y]
                         /\ acache'[y] = IF y = h THEN None ELSE acache[y]
    BY <1>1, <2>1, <2>4 DEF TypeOK
  <2>8. /\ arrays' \in [Mem -> [Shape -> Seq(Array)]]
        /\ \A m \in Mem, t \in Shape : arrays'[m][t] = IF m = n /\ t = s THEN Tail(q) ELSE arrays[m][t]
    <3>1. arrays \in [Mem -> [Shape -> Seq(Array)]] BY <1>1 DEF TypeOK
    <3> QED BY <1>1, <2>1, <2>4, <3>1
  <2>9. TypeOK'
    <3>1. /\ ast' \in [Array -> {"none", "held", "cached", "dead"}]
          /\ acache' \in [Array -> Mem \cup {None}]
      BY <1>1, <2>1 DEF TypeOK
    <3> QED BY <1>1, <2>1, <2>2, <2>3, <2>6, <2>8, <3>1 DEF TypeOK, CallType
  <2>10. \A y \in Array : Alive(y)' <=> Alive(y) BY <2>5, <2>7 DEF Alive
  <2>11. Dynamic'
    <3>1. \A o \in Op, i \in Inst : Using(o, i) =>
            /\ data'[i] = data[i] /\ ist'[i] \in {"live", "lost", "doomed"}
            /\ ist'[i] = "doomed" => Covered(o, doom'[i])
      BY <2>1 DEF IInv, Ops, Guarded
    <3>2. \A o \in Op : \A k \in DOMAIN tiles' : Using(o, tiles'[k].inst) => Covered(o, tiles'[k].after)
      BY <2>1 DEF IInv, Guarded
    <3>3. data' = data /\ tile' = tile BY <2>1
    <3> QED BY <2>2, <2>3, <2>10, <3>1, <3>2, <3>3, Handover
  <2>12. Counts'
    <3>1. \A y \in Array : ast'[y] # "none" <=> ast[y] # "none" BY <2>5, <2>7
    <3> QED BY <2>1, <2>3, <3>1 DEF IInv, Counts
  <2>13. Exist'
    <3>1. \A y \in Array : ast'[y] = "none" => war'[y] = {} /\ val'[y] = None
      BY <2>2, <2>7 DEF IInv, Exist
    <3> QED BY <2>1, <2>10, <3>1 DEF IInv, Exist
  <2>14. Apart' BY <2>1, <2>10 DEF IInv, Apart
  <2>15. Kept' BY <2>1, <2>10 DEF IInv, Kept, Owns
  <2>16. Queues'
    <3>1. ASSUME NEW m \in Mem, NEW t \in Shape, NEW k \in DOMAIN arrays[m][t], arrays[m][t][k] # h
          PROVE  /\ ast'[arrays[m][t][k]] = "cached"
                 /\ acache'[arrays[m][t][k]] = m /\ ashape'[arrays[m][t][k]] = t
                 /\ \A l \in DOMAIN arrays[m][t] : arrays[m][t][l] = arrays[m][t][k] => l = k
      <4>1. arrays[m][t] \in Seq(Array) BY <1>1 DEF TypeOK
      <4>2. arrays[m][t][k] \in Array BY <4>1
      <4>3. /\ ast[arrays[m][t][k]] = "cached" /\ acache[arrays[m][t][k]] = m
            /\ ashape[arrays[m][t][k]] = t
            /\ \A l \in DOMAIN arrays[m][t] : arrays[m][t][l] = arrays[m][t][k] => l = k
        BY DEF IInv, Queues
      <4> QED BY <2>1, <2>7, <3>1, <4>2, <4>3
    <3>2. ASSUME NEW m \in Mem, NEW t \in Shape, ~(m = n /\ t = s), NEW k \in DOMAIN arrays[m][t]
          PROVE  arrays[m][t][k] # h
      BY <2>5, <3>2 DEF IInv, Queues
    <3>3. ASSUME NEW k \in DOMAIN arrays'[n][s]
          PROVE  /\ ast'[arrays'[n][s][k]] = "cached"
                 /\ acache'[arrays'[n][s][k]] = n /\ ashape'[arrays'[n][s][k]] = s
                 /\ \A l \in DOMAIN arrays'[n][s] : arrays'[n][s][l] = arrays'[n][s][k] => l = k
      <4>1. arrays'[n][s] = Tail(q) /\ arrays[n][s] = q BY <1>1, <2>8 DEF q
      <4>2. k \in 1 .. Len(q) - 1 /\ DOMAIN arrays'[n][s] = 1 .. Len(q) - 1 BY <2>4, <3>3, <4>1
      <4>3. /\ DOMAIN q = 1 .. Len(q) /\ k + 1 \in 1 .. Len(q) /\ 1 \in 1 .. Len(q)
            /\ \A l \in 1 .. Len(q) - 1 : l + 1 \in 1 .. Len(q)
        BY <1>3, <2>4, <4>2
      <4>4. \A l, j \in DOMAIN q : q[l] = q[j] => l = j BY <1>1, <4>1 DEF IInv, Queues
      <4>5. q[k + 1] # h /\ k + 1 # 1 BY <2>4, <4>2, <4>3, <4>4
      <4>6. ast'[q[k + 1]] = "cached" /\ acache'[q[k + 1]] = n /\ ashape'[q[k + 1]] = s
        BY <1>1, <3>1, <4>1, <4>3, <4>5
      <4>7. \A l \in 1 .. Len(q) - 1 : q[l + 1] = q[k + 1] => l = k BY <4>2, <4>3, <4>4
      <4> QED BY <2>4, <4>1, <4>2, <4>6, <4>7
    <3>4. ASSUME NEW m \in Mem, NEW t \in Shape, ~(m = n /\ t = s) PROVE arrays'[m][t] = arrays[m][t]
      BY <2>8, <3>4
    <3> QED BY <3>1, <3>2, <3>3, <3>4 DEF Queues
  <2>17. Calls'
    <3>1. CASE c.src = None BY <2>6, <3>1 DEF Calls, Idle
    <3>2. CASE c.src # None
      <4>1. c.src # h /\ ast'[c.src] = "held" /\ ast'[h] = "held" /\ c.src \in Array
        BY <1>2, <2>4, <2>5, <2>7, <3>2
      <4> QED BY <2>4, <2>6, <3>2, <4>1 DEF Calls
    <3> QED BY <3>1, <3>2
  <2>18. Ids' BY <2>1, <2>10 DEF IInv, Ids
  <2> QED BY <2>9, <2>11, <2>12, <2>13, <2>14, <2>15, <2>16, <2>17, <2>18
       DEF IInv, Dynamic
<1> QED BY <1>4, <1>5

\* The program's Get keeps the invariant.
LEMMA CacheGetStep ==
  ASSUME IInv, NEW m \in Mem, NEW s \in Shape, NEW min \in MinSizes, CacheGet(m, s, min)
  PROVE  IInv'
<1> DEFINE c == [Idle EXCEPT !.phase = "try", !.mem = m, !.shape = s]
<1>1. Get(c, min) BY DEF CacheGet
<1>2. Asked(c) /\ c.phase = "try" BY PlainCall
<1>3. min \in Nat \ {0} BY MinAssumption
<1> HIDE DEF c
<1> QED BY <1>1, <1>2, <1>3, GetStep

\* MoveToMemory begins with a Get.
LEMMA MoveBeginStep ==
  ASSUME IInv, NEW a \in Array, NEW m \in Mem, NEW save \in Mem \cup {None}, MoveBegin(a, m, save)
  PROVE  IInv'
<1> DEFINE c == [Idle EXCEPT !.phase = "try", !.mem = m, !.shape = ashape[a], !.src = a, !.save = save]
<1>1. Get(c, 1) /\ ast[a] = "held" BY DEF MoveBegin
<1>2. ashape[a] \in Shape BY <1>1 DEF IInv, Exist, Alive
<1>3. Asked(c) /\ c.phase = "try" BY <1>1, <1>2, AskedFor
<1> HIDE DEF c
<1> QED BY <1>1, <1>3, GetStep

\* MoveToMemory into an array of the program only notes both.
LEMMA MoveIntoStep ==
  ASSUME IInv, NEW a \in Array, NEW b \in Array, MoveInto(a, b)
  PROVE  IInv'
<1>1. /\ call' = [Idle EXCEPT !.phase = "copy", !.src = a, !.dst = b]
      /\ ast[a] = "held" /\ ast[b] = "held" /\ a # b
      /\ tileCache' = tileCache /\ ist' = ist /\ imem' = imem /\ ishape' = ishape
      /\ doom' = doom /\ data' = data /\ UNCHANGED arrayVars /\ UNCHANGED storeVars
      /\ tiles' = tiles /\ arrays' = arrays /\ UNCHANGED opVars
  BY DEF MoveInto, instVars
<1>2. call' \in CallType /\ call'.phase = "copy" /\ call'.src = a /\ call'.dst = b
  BY <1>1, IdleFields DEF CallType
<1>3. ast' = ast BY <1>1 DEF arrayVars
<1>4. Calls' BY <1>1, <1>2, <1>3 DEF Calls
<1> QED BY <1>1, <1>2, <1>4, OnlyCall

\* InstanceCache::Free keeps the invariant.
LEMMA CacheFreeStep ==
  ASSUME IInv, NEW a \in Array, NEW m \in Mem, CacheFree(a, m)
  PROVE  IInv'
<1>1. /\ TypeOK /\ ast[a] = "held" /\ Free(a, m)
      /\ tileCache' = tileCache /\ ist' = ist /\ imem' = imem /\ ishape' = ishape
      /\ doom' = doom /\ data' = data /\ ashape' = ashape /\ tile' = tile /\ id' = id
      /\ given' = given /\ nextId' = nextId /\ UNCHANGED storeVars /\ tiles' = tiles
      /\ call' = call /\ UNCHANGED opVars /\ call.phase = "idle"
  BY DEF CacheFree, instVars, IInv, Ready
<1>2. rw' = rw /\ hasRw' = hasRw /\ war' = war /\ hasWar' = hasWar /\ val' = val BY <1>1 DEF storeVars
<1>3. launched' = launched /\ from' = from /\ to' = to /\ opre' = opre /\ ost' = ost /\ want' = want
  BY <1>1 DEF opVars
<1>4. /\ ast' \in [Array -> {"none", "held", "cached", "dead"}]
      /\ acache' \in [Array -> Mem \cup {None}]
      /\ arrays' \in [Mem -> [Shape -> Seq(Array)]]
      /\ \A x \in Array : ast'[x] = IF x = a THEN "cached" ELSE ast[x]
      /\ Queues'
  BY <1>1, PutInCache
<1>5. TypeOK' BY <1>1, <1>2, <1>3, <1>4 DEF TypeOK
<1>6. \A x \in Array : Alive(x)' <=> Alive(x) BY <1>1, <1>4 DEF Alive
<1>7. Dynamic'
  <2>1. \A o \in Op, i \in Inst : Using(o, i) =>
          /\ data'[i] = data[i] /\ ist'[i] \in {"live", "lost", "doomed"}
          /\ ist'[i] = "doomed" => Covered(o, doom'[i])
    BY <1>1 DEF IInv, Ops, Guarded
  <2>2. \A o \in Op : \A k \in DOMAIN tiles' : Using(o, tiles'[k].inst) => Covered(o, tiles'[k].after)
    BY <1>1 DEF IInv, Guarded
  <2>3. data' = data /\ tile' = tile BY <1>1
  <2> QED BY <1>2, <1>3, <1>6, <2>1, <2>2, <2>3, Handover
<1>8. Counts'
  <2>1. \A x \in Array : ast'[x] # "none" <=> ast[x] # "none" BY <1>1, <1>4
  <2> QED BY <1>1, <1>3, <2>1 DEF IInv, Counts
<1>9. Exist'
  <2>1. \A x \in Array : ast'[x] = "none" => war'[x] = {} /\ val'[x] = None
    BY <1>2, <1>4 DEF IInv, Exist
  <2> QED BY <1>1, <1>6, <2>1 DEF IInv, Exist
<1>10. Apart' BY <1>1, <1>6 DEF IInv, Apart
<1>11. Kept' BY <1>1, <1>6 DEF IInv, Kept, Owns
<1>12. Calls' BY <1>1 DEF IInv, Calls, Idle
<1>13. Ids' BY <1>1, <1>6 DEF IInv, Ids
<1> QED BY <1>4, <1>5, <1>7, <1>8, <1>9, <1>10, <1>11, <1>12, <1>13 DEF IInv, Dynamic

-----------------------------------------------------------------------------
(***************************************************************************)
(* Giving instances back.                                                  *)
(***************************************************************************)
LEMMA ClearTilesStep ==
  ASSUME IInv, ClearTiles
  PROVE  IInv'
<1> DEFINE AfterOf(i) == tiles[CHOOSE k \in DOMAIN tiles : tiles[k].inst = i].after
<1>1. /\ TypeOK /\ call.phase = "try"
      /\ ist' = [i \in Inst |-> IF i \in Cleared THEN "doomed" ELSE ist[i]]
      /\ doom' = [i \in Inst |-> IF i \in Cleared THEN AfterOf(i) ELSE doom[i]]
      /\ tiles' = <<>> /\ call' = [call EXCEPT !.phase = "retry"]
      /\ tileCache' = tileCache /\ imem' = imem /\ ishape' = ishape /\ data' = data
      /\ UNCHANGED arrayVars /\ UNCHANGED storeVars /\ arrays' = arrays /\ UNCHANGED opVars
  BY DEF ClearTiles, Refused, NextAttempt, IInv
<1>2. ast' = ast /\ acache' = acache /\ ashape' = ashape /\ tile' = tile /\ id' = id /\ given' = given /\ nextId' = nextId
  BY <1>1 DEF arrayVars
<1>3. rw' = rw /\ hasRw' = hasRw /\ war' = war /\ hasWar' = hasWar /\ val' = val BY <1>1 DEF storeVars
<1>4. launched' = launched /\ from' = from /\ to' = to /\ opre' = opre /\ ost' = ost /\ want' = want
  BY <1>1 DEF opVars
<1>5. \A a : Alive(a)' <=> Alive(a) BY <1>2 DEF Alive
<1>6. /\ Cleared \subseteq Inst /\ \A i \in Cleared : ist[i] = "live"
      /\ \A a \in Array : Alive(a) => tile[a] \notin Cleared
      /\ \A k \in DOMAIN tiles : tiles[k].inst \in Cleared
  BY TileEntry DEF IInv, Exist, Apart, Cleared
<1>7. ASSUME NEW i \in Cleared
      PROVE  AfterOf(i) \in SUBSET Op /\ \A o \in Op : Using(o, i) => Covered(o, AfterOf(i))
  <2> DEFINE k == CHOOSE k \in DOMAIN tiles : tiles[k].inst = i
  <2>1. \E l \in DOMAIN tiles : tiles[l].inst = i BY DEF Cleared
  <2>2. k \in DOMAIN tiles /\ tiles[k].inst = i BY <2>1
  <2>3. AfterOf(i) = tiles[k].after OBVIOUS
  <2> HIDE DEF k, AfterOf
  <2> QED BY <2>2, <2>3, TileEntry DEF IInv, Guarded
<1> HIDE DEF AfterOf
<1>8. /\ call'.phase = "retry" /\ call'.mem = call.mem /\ call'.shape = call.shape
      /\ call'.src = call.src /\ call'.dst = call.dst /\ call'.save = call.save
      /\ call' \in [phase : {"idle", "try", "retry", "copy"}, mem : Mem \cup {None},
                    shape : Shape \cup {None}, src : Array \cup {None},
                    dst : Array \cup {None}, save : Mem \cup {None}]
  BY <1>1 DEF TypeOK
<1>9. TypeOK'
  <2>1. ist' \in [Inst -> {"none", "live", "lost", "doomed", "gone"}] BY <1>1 DEF TypeOK
  <2>2. doom' \in [Inst -> SUBSET Op] BY <1>1, <1>7 DEF TypeOK
  <2>3. tiles' \in Seq([inst : Inst, after : SUBSET Op]) BY <1>1
  <2> QED BY <1>1, <1>2, <1>3, <1>4, <1>8, <2>1, <2>2, <2>3 DEF TypeOK
<1>10. DOMAIN tiles' = {} BY <1>1
<1>11. Dynamic'
  <2>1. ASSUME NEW o \in Op, NEW i \in Inst, Using(o, i)
        PROVE  /\ data'[i] = data[i] /\ ist'[i] \in {"live", "lost", "doomed"}
               /\ ist'[i] = "doomed" => Covered(o, doom'[i])
    <3>1. ist[i] \in {"live", "lost", "doomed"} /\ (ist[i] = "doomed" => Covered(o, doom[i]))
      BY <2>1 DEF IInv, Ops, Guarded
    <3>2. CASE i \in Cleared
      <4>1. doom'[i] = AfterOf(i) BY <1>1, <3>2
      <4> QED BY <1>1, <1>7, <2>1, <3>2, <4>1
    <3>3. CASE i \notin Cleared BY <1>1, <3>1, <3>3
    <3> QED BY <3>2, <3>3
  <2>2. \A o \in Op : \A k \in DOMAIN tiles' : Using(o, tiles'[k].inst) => Covered(o, tiles'[k].after)
    BY <1>10
  <2>3. data' = data BY <1>1
  <2> QED BY <1>2, <1>3, <1>4, <1>5, <2>1, <2>2, <2>3, Handover
<1>12. Counts'
  <2>1. \A i \in Inst : ist'[i] # "none" <=> ist[i] # "none" BY <1>1, <1>6
  <2> QED BY <1>2, <1>4, <2>1 DEF IInv, Counts
<1>13. Exist'
  <2>1. \A a \in Array : Alive(a)' => /\ ashape'[a] \in Shape
                                      /\ tile'[a] \in Inst /\ ist'[tile'[a]] = "live"
    BY <1>1, <1>2, <1>5, <1>6 DEF IInv, Exist
  <2>2. \A a \in Array : ast'[a] = "none" => war'[a] = {} /\ val'[a] = None
    BY <1>2, <1>3 DEF IInv, Exist
  <2> QED BY <1>1, <1>10, <2>1, <2>2 DEF Exist
<1>14. Apart' BY <1>2, <1>5, <1>10 DEF IInv, Apart
<1>15. Kept'
  <2>1. ASSUME NEW i \in Inst, ist'[i] = "live" PROVE \E a \in Array : Owns(a, i)'
    <3>1. ist[i] = "live" /\ i \notin Cleared BY <1>1, <2>1
    <3>2. \E a \in Array : Owns(a, i) BY <1>6, <2>1, <3>1 DEF IInv, Kept
    <3> QED BY <1>2, <1>5, <3>2 DEF Owns
  <2> QED BY <2>1 DEF Kept
<1>16. Queues' BY <1>1, <1>2 DEF IInv, Queues
<1>17. Calls'
  <2>1. /\ call.mem \in Mem /\ call.shape \in Shape /\ call.dst = None
        /\ call.src # None => ast[call.src] = "held"
    BY <1>1 DEF IInv, Calls
  <2> QED BY <1>1, <1>2, <1>8, <2>1 DEF Calls
<1>18. Ids' BY <1>2, <1>5 DEF IInv, Ids
<1> QED BY <1>9, <1>11, <1>12, <1>13, <1>14, <1>15, <1>16, <1>17, <1>18 DEF IInv, Dynamic

\* A destruction that takes effect keeps the invariant: nobody uses the instance.
LEMMA ReclaimStep ==
  ASSUME IInv, NEW d \in Inst, Reclaim(d)
  PROVE  IInv'
<1>1. /\ TypeOK /\ ist[d] = "doomed" /\ doom[d] = {}
      /\ ist' = [ist EXCEPT ![d] = "gone"] /\ imem' = [imem EXCEPT ![d] = None]
      /\ ishape' = [ishape EXCEPT ![d] = None] /\ data' = [data EXCEPT ![d] = None]
      /\ tileCache' = tileCache /\ doom' = doom /\ UNCHANGED arrayVars /\ UNCHANGED storeVars
      /\ tiles' = tiles /\ arrays' = arrays /\ call' = call /\ UNCHANGED opVars
  BY DEF Reclaim, IInv
<1>2. ast' = ast /\ acache' = acache /\ ashape' = ashape /\ tile' = tile /\ id' = id /\ given' = given /\ nextId' = nextId
  BY <1>1 DEF arrayVars
<1>3. rw' = rw /\ hasRw' = hasRw /\ war' = war /\ hasWar' = hasWar /\ val' = val BY <1>1 DEF storeVars
<1>4. launched' = launched /\ from' = from /\ to' = to /\ opre' = opre /\ ost' = ost /\ want' = want
  BY <1>1 DEF opVars
<1>5. \A a : Alive(a)' <=> Alive(a) BY <1>2 DEF Alive
<1>6. /\ ist'[d] = "gone"
      /\ \A i \in Inst : i # d => /\ ist'[i] = ist[i] /\ imem'[i] = imem[i]
                                  /\ ishape'[i] = ishape[i] /\ data'[i] = data[i]
  BY <1>1 DEF TypeOK
<1>7. \A o \in Op : ~Using(o, d)
  <2>1. \A o \in Op : Using(o, d) => Covered(o, {}) BY <1>1 DEF IInv, Guarded
  <2> QED BY <2>1 DEF Covered
<1>8. \A a \in Array : Alive(a) => tile[a] \in Inst /\ tile[a] # d BY <1>1 DEF IInv, Exist
<1>9. \A k \in DOMAIN tiles : tiles[k].inst \in Inst /\ tiles[k].inst # d
  BY <1>1, TileEntry DEF IInv, Exist
<1>10. TypeOK' BY <1>1, <1>2, <1>3, <1>4 DEF TypeOK
<1>11. Dynamic'
  <2>1. \A o \in Op, i \in Inst : Using(o, i) =>
          /\ data'[i] = data[i] /\ ist'[i] \in {"live", "lost", "doomed"}
          /\ ist'[i] = "doomed" => Covered(o, doom'[i])
    BY <1>1, <1>6, <1>7 DEF IInv, Ops, Guarded
  <2>2. \A o \in Op : \A k \in DOMAIN tiles' : Using(o, tiles'[k].inst) => Covered(o, tiles'[k].after)
    BY <1>1 DEF IInv, Guarded
  <2>3. \A a \in Array : Alive(a) => data'[tile[a]] = data[tile[a]] BY <1>6, <1>8
  <2> QED BY <1>2, <1>3, <1>4, <1>5, <2>1, <2>2, <2>3, Handover
<1>12. Counts'
  <2>1. \A i \in Inst : ist'[i] # "none" <=> ist[i] # "none" BY <1>1, <1>6
  <2> QED BY <1>2, <1>4, <2>1 DEF IInv, Counts
<1>13. Exist'
  <2>1. \A a \in Array : Alive(a)' => /\ ashape'[a] \in Shape
                                      /\ tile'[a] \in Inst /\ ist'[tile'[a]] = "live"
    BY <1>2, <1>5, <1>6, <1>8 DEF IInv, Exist
  <2>3. \A k \in DOMAIN tiles' : ist'[tiles'[k].inst] = "live" BY <1>1, <1>6, <1>9 DEF IInv, Exist
  <2>4. \A a \in Array : ast'[a] = "none" => war'[a] = {} /\ val'[a] = None
    BY <1>2, <1>3 DEF IInv, Exist
  <2>5. tileCache' \/ tiles' = <<>> BY <1>1 DEF IInv, Exist
  <2> QED BY <2>1, <2>3, <2>4, <2>5 DEF Exist
<1>14. Apart' BY <1>1, <1>2, <1>5 DEF IInv, Apart
<1>15. Kept' BY <1>1, <1>2, <1>5, <1>6 DEF IInv, Kept, Owns
<1>16. Queues' BY <1>1, <1>2 DEF IInv, Queues
<1>17. Calls' BY <1>1, <1>2 DEF IInv, Calls
<1>18. Ids' BY <1>2, <1>5 DEF IInv, Ids
<1> QED BY <1>10, <1>11, <1>12, <1>13, <1>14, <1>15, <1>16, <1>17, <1>18 DEF IInv, Dynamic

\* What becomes of the instances of the arrays in A: those with a precondition, listed
\* in q, have theirs cached or doomed; those of the others are lost.
Outcome(A, q) ==
  /\ q \in Seq(Array) /\ \A k \in DOMAIN q : q[k] \in A
  /\ \A k, l \in DOMAIN q : q[k] = q[l] => k = l
  /\ ist' \in [Inst -> {"none", "live", "lost", "doomed", "gone"}] /\ doom' \in [Inst -> SUBSET Op]
  /\ \A i \in Inst : \/ ist'[i] = ist[i] /\ doom'[i] = doom[i]
                     \/ /\ ist[i] = "live" /\ ist'[i] = "lost"
                        /\ \E a \in A : tile[a] = i
                     \/ /\ ist[i] = "live" /\ ist'[i] = "doomed"
                        /\ \E k \in DOMAIN q : tile[q[k]] = i /\ doom'[i] = FreeAfter(q[k])
  /\ ~tileCache => tiles' = <<>>
  /\ \A a \in A : ist'[tile[a]] = "live" => tileCache /\ \E k \in DOMAIN q : q[k] = a
  /\ tiles' \in Seq([inst : Inst, after : SUBSET Op])
  /\ \A l \in DOMAIN tiles : l \in DOMAIN tiles' /\ tiles'[l] = tiles[l]
  /\ tileCache => \A k \in DOMAIN q : /\ ist'[tile[q[k]]] = "live"
                                      /\ Len(tiles) + k \in DOMAIN tiles'
                                      /\ tiles'[Len(tiles) + k].inst = tile[q[k]]
  /\ \A l \in DOMAIN tiles' :
       \/ l \in DOMAIN tiles
       \/ /\ tileCache
          /\ \E k \in DOMAIN q : /\ l = Len(tiles) + k /\ tiles'[l].inst = tile[q[k]]
                                 /\ tiles'[l].after = FreeAfter(q[k])

\* ~Store of the arrays in A has that outcome.
LEMMA GivenBack ==
  ASSUME IInv, NEW A \in SUBSET Array, \A a \in A : Alive(a), Destroy(A)
  PROVE  \E q : Outcome(A, q)
<1> DEFINE H == {a \in A : HasPrecondition(a)}
           q == SetToSeq({a \in A : HasPrecondition(a)})
           Mine(i) == \E k \in DOMAIN q : tile[q[k]] = i
           Lost(i) == \E a \in A : tile[a] = i /\ ~HasPrecondition(a)
           Of(i) == CHOOSE a \in Array : Owns(a, i)
           T == [inst : Inst, after : SUBSET Op]
           r == [k \in DOMAIN q |-> [inst |-> tile[q[k]], after |-> FreeAfter(q[k])]]
<1>1. /\ TypeOK /\ tiles \in Seq(T) /\ Len(tiles) \in Nat
      /\ DOMAIN tiles = 1 .. Len(tiles)
  BY DEF IInv, TypeOK
<1>2. IsFiniteSet(H) BY Domains, FS_Subset
<1>3. /\ q \in Seq(H) /\ \A x \in H : \E k \in DOMAIN q : q[k] = x
      /\ \A k \in DOMAIN q : q[k] \in H
      /\ \A k, l \in DOMAIN q : q[k] = q[l] => k = l
  <2> HIDE DEF H
  <2>1. q = SetToSeq(H) BY DEF H
  <2> HIDE DEF q
  <2> QED BY <1>2, <2>1, ListsAll
<1>4. /\ IF tileCache
         THEN /\ tiles' = tiles \o r
              /\ ist' = [i \in Inst |-> IF Lost(i) THEN "lost" ELSE ist[i]]
              /\ doom' = doom
         ELSE /\ ist' = [i \in Inst |-> IF Lost(i) THEN "lost" ELSE IF Mine(i) THEN "doomed" ELSE ist[i]]
              /\ doom' = [i \in Inst |-> IF Mine(i) THEN FreeAfter(Of(i)) ELSE doom[i]]
              /\ tiles' = tiles
  BY DEF Destroy
<1> HIDE DEF q
<1>5. q \in Seq(Array) /\ DOMAIN q = 1 .. Len(q) /\ Len(q) \in Nat
  <2>1. Len(q) \in Nat /\ q \in [1 .. Len(q) -> H] BY <1>3
  <2>2. q \in [1 .. Len(q) -> Array] BY <2>1
  <2> QED BY <2>1, <2>2
<1>6. /\ \A a \in A : tile[a] \in Inst /\ ist[tile[a]] = "live"
      /\ \A a, b \in Array : Alive(a) /\ Alive(b) /\ tile[a] = tile[b] => a = b
  BY DEF IInv, Exist, Apart
<1>7. \A k \in DOMAIN q : /\ q[k] \in A /\ q[k] \in Array /\ HasPrecondition(q[k]) /\ Alive(q[k])
                          /\ tile[q[k]] \in Inst /\ ~Lost(tile[q[k]])
  <2> SUFFICES ASSUME NEW k \in DOMAIN q
               PROVE  /\ q[k] \in A /\ q[k] \in Array /\ HasPrecondition(q[k]) /\ Alive(q[k])
                      /\ tile[q[k]] \in Inst /\ ~Lost(tile[q[k]])
    OBVIOUS
  <2>1. q[k] \in A /\ q[k] \in Array /\ HasPrecondition(q[k]) /\ Alive(q[k]) BY <1>3
  <2>2. ASSUME NEW a \in A, tile[a] = tile[q[k]] PROVE a = q[k] BY <1>6, <2>1, <2>2
  <2> QED BY <1>6, <2>1, <2>2
<1>8. \A a \in Array : FreeAfter(a) \in SUBSET Op BY <1>1 DEF TypeOK, FreeAfter, Precondition
<1>9. \A a \in A : Lost(tile[a]) \/ \E k \in DOMAIN q : q[k] = a
  <2> SUFFICES ASSUME NEW a \in A, ~\E k \in DOMAIN q : q[k] = a PROVE Lost(tile[a]) OBVIOUS
  <2>1. ~HasPrecondition(a) BY <1>3
  <2> QED BY <2>1
<1>10. ist' \in [Inst -> {"none", "live", "lost", "doomed", "gone"}]
  <2>1. ist \in [Inst -> {"none", "live", "lost", "doomed", "gone"}] BY <1>1 DEF TypeOK
  <2> HIDE DEF Lost, Mine, Of, r, T
  <2> QED BY <1>4, <2>1
<1>11. \A i \in Inst : Lost(i) => ist[i] = "live" /\ ist'[i] = "lost" /\ \E a \in A : tile[a] = i
  <2>1. \A i \in Inst : Lost(i) => ist[i] = "live" /\ \E a \in A : tile[a] = i BY <1>6
  <2>2. \A i \in Inst : Lost(i) => ist'[i] = "lost"
    <3> HIDE DEF Lost, Mine, Of, r, T
    <3> QED BY <1>4
  <2> QED BY <2>1, <2>2
<1>12. ASSUME tileCache PROVE Outcome(A, q)
  <2>1. tiles' = tiles \o r /\ doom' = doom /\ \A i \in Inst : ~Lost(i) => ist'[i] = ist[i]
    <3> HIDE DEF Lost, Mine, Of, r
    <3> QED BY <1>4, <1>12
  <2>2. \A k \in DOMAIN q : /\ r[k] \in T /\ r[k].inst = tile[q[k]] /\ r[k].after = FreeAfter(q[k])
    BY <1>7, <1>8
  <2>3. r \in Seq(T) /\ Len(r) = Len(q)
    <3>1. r \in [1 .. Len(q) -> T] /\ DOMAIN r = 1 .. Len(q) BY <1>5, <2>2
    <3> HIDE DEF r, T
    <3> QED BY <1>5, <3>1
  <2>4. /\ tiles' \in Seq(T) /\ Len(tiles') = Len(tiles) + Len(q)
        /\ \A l \in 1 .. Len(tiles) : tiles'[l] = tiles[l]
        /\ \A k \in 1 .. Len(q) : tiles'[Len(tiles) + k] = r[k]
    <3> HIDE DEF r, T
    <3>0. tiles \in Seq(T) /\ r \in Seq(T) BY <1>1, <2>3
    <3>1. /\ tiles \o r \in Seq(T)
          /\ Len(tiles \o r) = Len(tiles) + Len(r)
          /\ \A l \in 1 .. Len(tiles) : (tiles \o r)[l] = tiles[l]
          /\ \A k \in 1 .. Len(r) : (tiles \o r)[Len(tiles) + k] = r[k]
      BY <3>0, ConcatAt
    <3> QED BY <2>1, <2>3, <3>1
  <2> HIDE DEF r, Lost, Mine, Of
  <2>5. DOMAIN tiles' = 1 .. Len(tiles) + Len(q)
    <3> HIDE DEF T
    <3> QED BY <2>4
  <2>6. \A l \in DOMAIN tiles : l \in DOMAIN tiles' /\ tiles'[l] = tiles[l] BY <1>1, <1>5, <2>4, <2>5
  <2>7. \A k \in DOMAIN q : /\ Len(tiles) + k \in DOMAIN tiles'
                            /\ tiles'[Len(tiles) + k].inst = tile[q[k]]
                            /\ tiles'[Len(tiles) + k].after = FreeAfter(q[k])
    <3> HIDE DEF T
    <3> QED BY <1>1, <1>5, <2>2, <2>4, <2>5
  <2>8. \A l \in DOMAIN tiles' : l \in DOMAIN tiles \/ \E k \in DOMAIN q : l = Len(tiles) + k
    <3> SUFFICES ASSUME NEW l \in 1 .. Len(tiles) + Len(q), ~(l \in 1 .. Len(tiles))
                 PROVE  \E k \in DOMAIN q : l = Len(tiles) + k
      BY <1>1, <2>5
    <3>1. l - Len(tiles) \in 1 .. Len(q) /\ l = Len(tiles) + (l - Len(tiles)) BY <1>1, <1>5
    <3> QED BY <1>5, <3>1
  <2>9. \A l \in DOMAIN tiles' :
          \/ l \in DOMAIN tiles
          \/ \E k \in DOMAIN q : /\ l = Len(tiles) + k /\ tiles'[l].inst = tile[q[k]]
                                 /\ tiles'[l].after = FreeAfter(q[k])
    BY <2>7, <2>8
  <2>10. doom' \in [Inst -> SUBSET Op] BY <1>1, <2>1 DEF TypeOK
  <2>11. \A k \in DOMAIN q : ist'[tile[q[k]]] = "live" BY <1>6, <1>7, <2>1
  <2>12. \A a \in A : ist'[tile[a]] = "live" => \E k \in DOMAIN q : q[k] = a
    <3>1. \A a \in A : Lost(tile[a]) => ist'[tile[a]] = "lost" BY <1>6, <1>11
    <3> QED BY <1>9, <3>1
  <2>13. \A i \in Inst : \/ ist'[i] = ist[i] /\ doom'[i] = doom[i]
                         \/ ist[i] = "live" /\ ist'[i] = "lost" /\ \E a \in A : tile[a] = i
    BY <1>11, <2>1
  <2>14. \A k \in DOMAIN q : q[k] \in A BY <1>7
  <2> HIDE DEF T
  <2> QED BY <1>3, <1>5, <1>10, <1>12, <2>4, <2>6, <2>7, <2>9, <2>10, <2>11, <2>12, <2>13, <2>14 DEF T, Outcome
<1>13. ASSUME ~tileCache PROVE Outcome(A, q)
  <2>1. /\ tiles' = tiles /\ doom' = [i \in Inst |-> IF Mine(i) THEN FreeAfter(Of(i)) ELSE doom[i]]
        /\ \A i \in Inst : ~Lost(i) => ist'[i] = IF Mine(i) THEN "doomed" ELSE ist[i]
    <3> HIDE DEF Lost, Mine, Of, r, T
    <3> QED BY <1>4, <1>13
  <2>2. tiles = <<>> /\ tiles' = <<>> BY <1>13, <2>1 DEF IInv, Exist
  <2>3. ASSUME NEW k \in DOMAIN q PROVE Of(tile[q[k]]) = q[k]
    <3>1. q[k] \in Array /\ Owns(q[k], tile[q[k]]) BY <1>7 DEF Owns
    <3>2. \A a \in Array : Owns(a, tile[q[k]]) => a = q[k] BY <1>6, <3>1 DEF Owns
    <3> QED BY <3>1, <3>2
  <2>4. ASSUME NEW i \in Inst, Mine(i)
        PROVE  /\ ist[i] = "live" /\ ist'[i] = "doomed" /\ FreeAfter(Of(i)) \in SUBSET Op
               /\ \E k \in DOMAIN q : tile[q[k]] = i /\ doom'[i] = FreeAfter(q[k])
    <3>1. PICK k \in DOMAIN q : tile[q[k]] = i BY <2>4
    <3>2. Of(i) = q[k] BY <2>3, <3>1
    <3>3. ~Lost(i) BY <1>7, <3>1
    <3> HIDE DEF Of, Lost, Mine
    <3>4. ist'[i] = "doomed" /\ doom'[i] = FreeAfter(Of(i)) BY <2>1, <2>4, <3>3
    <3> QED BY <1>6, <1>7, <1>8, <3>1, <3>2, <3>4
  <2>5. \A a \in A : Mine(tile[a]) \/ Lost(tile[a]) BY <1>9
  <2> HIDE DEF Mine, Of, Lost
  <2>6. \A i \in Inst : ~Mine(i) /\ ~Lost(i) => ist'[i] = ist[i] /\ doom'[i] = doom[i] BY <2>1
  <2>7. doom' \in [Inst -> SUBSET Op] BY <1>1, <2>1, <2>4 DEF TypeOK
  <2>8. DOMAIN tiles' = {} /\ DOMAIN tiles = {} /\ tiles' \in Seq(T) BY <2>2
  <2>9. \A i \in Inst : \/ ist'[i] = ist[i] /\ doom'[i] = doom[i]
                        \/ ist[i] = "live" /\ ist'[i] = "lost" /\ \E a \in A : tile[a] = i
                        \/ /\ ist[i] = "live" /\ ist'[i] = "doomed"
                           /\ \E k \in DOMAIN q : tile[q[k]] = i /\ doom'[i] = FreeAfter(q[k])
    BY <1>11, <2>4, <2>6
  <2>10. \A a \in A : ist'[tile[a]] # "live" BY <1>6, <1>11, <2>4, <2>5
  <2>11. \A k \in DOMAIN q : q[k] \in A BY <1>7
  <2> HIDE DEF T
  <2> QED BY <1>3, <1>5, <1>10, <1>13, <2>2, <2>7, <2>8, <2>9, <2>10, <2>11 DEF T, Outcome
<1> QED BY <1>12, <1>13

\* Arrays end, and give back their instances or lose them.
LEMMA GiveUp ==
  ASSUME IInv, call' = Idle, NEW A \in SUBSET Array, \A a \in A : Alive(a), Destroy(A),
         tileCache' = tileCache, data' = data, UNCHANGED opVars,
         arrays' \in [Mem -> [Shape -> Seq(Array)]],
         \A m \in Mem, s \in Shape : arrays'[m][s] = arrays[m][s] \/ arrays'[m][s] = <<>>,
         \A m \in Mem, s \in Shape : \A k \in DOMAIN arrays'[m][s] : arrays'[m][s][k] \notin A
  PROVE  IInv'
<1>1. PICK q : Outcome(A, q) BY GivenBack
<1>2. /\ TypeOK /\ q \in Seq(Array) /\ \A k \in DOMAIN q : q[k] \in A
      /\ \A k, l \in DOMAIN q : q[k] = q[l] => k = l
      /\ \A k \in DOMAIN q : Alive(q[k]) /\ q[k] \in Array
  <2>1. /\ q \in Seq(Array) /\ \A k \in DOMAIN q : q[k] \in A
        /\ \A k, l \in DOMAIN q : q[k] = q[l] => k = l
    BY <1>1 DEF Outcome
  <2> QED BY <2>1 DEF IInv
<1>3. /\ ist' \in [Inst -> {"none", "live", "lost", "doomed", "gone"}] /\ doom' \in [Inst -> SUBSET Op]
      /\ ~tileCache => tiles' = <<>>
      /\ \A a \in A : ist'[tile[a]] = "live" => tileCache /\ \E k \in DOMAIN q : q[k] = a
      /\ tiles' \in Seq([inst : Inst, after : SUBSET Op])
      /\ tileCache => \A k \in DOMAIN q : /\ ist'[tile[q[k]]] = "live"
                                          /\ Len(tiles) + k \in DOMAIN tiles'
                                          /\ tiles'[Len(tiles) + k].inst = tile[q[k]]
  BY <1>1 DEF Outcome
<1>4. \A i \in Inst : \/ ist'[i] = ist[i] /\ doom'[i] = doom[i]
                      \/ /\ ist[i] = "live" /\ ist'[i] = "lost"
                         /\ \E a \in A : tile[a] = i
                      \/ /\ ist[i] = "live" /\ ist'[i] = "doomed"
                         /\ \E k \in DOMAIN q : tile[q[k]] = i /\ doom'[i] = FreeAfter(q[k])
  BY <1>1 DEF Outcome
<1>5. /\ \A l \in DOMAIN tiles : l \in DOMAIN tiles' /\ tiles'[l] = tiles[l]
      /\ \A l \in DOMAIN tiles' :
           \/ l \in DOMAIN tiles
           \/ /\ tileCache
              /\ \E k \in DOMAIN q : /\ l = Len(tiles) + k /\ tiles'[l].inst = tile[q[k]]
                                     /\ tiles'[l].after = FreeAfter(q[k])
  BY <1>1 DEF Outcome
<1>6. Forget(A) /\ imem' = imem /\ ishape' = ishape BY DEF Destroy
<1>7. /\ ast' \in [Array -> {"none", "held", "cached", "dead"}]
      /\ acache' \in [Array -> Mem \cup {None}] /\ ashape' \in [Array -> Shape \cup {None}]
      /\ tile' \in [Array -> Inst \cup {None}] /\ id' \in [Array -> 0 .. NArrays]
      /\ rw' \in [Array -> SUBSET Op] /\ hasRw' \in [Array -> BOOLEAN]
      /\ war' \in [Array -> SUBSET Op] /\ hasWar' \in [Array -> BOOLEAN]
      /\ val' \in [Array -> Op \cup {None}] /\ nextId' = nextId /\ given' \in [Array -> BOOLEAN]
  <2>1. /\ ast' \in [Array -> {"none", "held", "cached", "dead"}]
        /\ acache' \in [Array -> Mem \cup {None}] /\ ashape' \in [Array -> Shape \cup {None}]
        /\ tile' \in [Array -> Inst \cup {None}] /\ val' \in [Array -> Op \cup {None}]
    BY <1>2, <1>6 DEF Forget, TypeOK
  <2>2. /\ rw' \in [Array -> SUBSET Op] /\ war' \in [Array -> SUBSET Op] BY <1>2, <1>6 DEF Forget, TypeOK
  <2>3. hasRw' \in [Array -> BOOLEAN] /\ hasWar' \in [Array -> BOOLEAN] BY <1>2, <1>6 DEF Forget, TypeOK
  <2>4. id' \in [Array -> 0 .. NArrays]
    <3>1. id' = [a \in Array |-> IF a \in A THEN 0 ELSE id[a]] BY <1>6 DEF Forget, None
    <3>2. \A a \in Array : id[a] \in 0 .. NArrays BY <1>2 DEF TypeOK
    <3>3. 0 \in 0 .. NArrays BY Domains
    <3> QED BY <3>1, <3>2, <3>3
  <2>5. nextId' = nextId BY <1>6 DEF Forget
  <2>6. given' \in [Array -> BOOLEAN] BY <1>2, <1>6 DEF Forget, TypeOK
  <2> QED BY <2>1, <2>2, <2>3, <2>4, <2>5, <2>6
<1>8. \A x \in Array :
        /\ x \in A => ast'[x] = "dead" /\ id'[x] = 0
        /\ x \notin A => /\ ast'[x] = ast[x] /\ acache'[x] = acache[x] /\ ashape'[x] = ashape[x]
                         /\ tile'[x] = tile[x] /\ id'[x] = id[x] /\ rw'[x] = rw[x]
                         /\ war'[x] = war[x] /\ val'[x] = val[x] /\ given'[x] = given[x]
  BY <1>6 DEF Forget, None
<1>9. launched' = launched /\ from' = from /\ to' = to /\ opre' = opre /\ ost' = ost /\ want' = want
  BY DEF opVars
<1>10. TypeOK'
  <2>1. call' \in CallType BY IdleFields
  <2> QED BY <1>2, <1>3, <1>7, <1>9, <1>6, <2>1 DEF TypeOK, CallType
<1>11. \A x \in Array : Alive(x)' <=> x \notin A /\ Alive(x) BY <1>8 DEF Alive
<1>12. \A x \in Array : Alive(x) => tile[x] \in Inst /\ ist[tile[x]] = "live" BY DEF IInv, Exist
<1>13. \A k \in DOMAIN q : \A o \in Op : Using(o, tile[q[k]]) => Covered(o, FreeAfter(q[k]))
  <2> SUFFICES ASSUME NEW k \in DOMAIN q, NEW o \in Op, Using(o, tile[q[k]])
               PROVE  Covered(o, FreeAfter(q[k]))
    OBVIOUS
  <2>1. Covered(o, rw[q[k]]) \/ o \in war[q[k]] BY <1>2 DEF IInv, Guarded
  <2> QED BY <2>1 DEF Covered, FreeAfter, Precondition
<1>14. Dynamic'
  <2>1. ASSUME NEW o \in Op, NEW i \in Inst, Using(o, i)
        PROVE  /\ data'[i] = data[i] /\ ist'[i] \in {"live", "lost", "doomed"}
               /\ ist'[i] = "doomed" => Covered(o, doom'[i])
    <3>1. ist[i] \in {"live", "lost", "doomed"} /\ (ist[i] = "doomed" => Covered(o, doom[i]))
      BY <2>1 DEF IInv, Ops, Guarded
    <3>2. CASE ist'[i] = ist[i] /\ doom'[i] = doom[i] BY <3>1, <3>2
    <3>3. CASE ist'[i] = "doomed" /\ \E k \in DOMAIN q : tile[q[k]] = i /\ doom'[i] = FreeAfter(q[k])
      BY <1>13, <2>1, <3>3
    <3>4. CASE ist'[i] = "lost" BY <3>4
    <3> QED BY <1>4, <3>2, <3>3, <3>4
  <2>2. ASSUME NEW o \in Op, NEW l \in DOMAIN tiles', Using(o, tiles'[l].inst)
        PROVE  Covered(o, tiles'[l].after)
    <3>1. CASE l \in DOMAIN tiles BY <1>5, <2>2, <3>1 DEF IInv, Guarded
    <3>2. CASE \E k \in DOMAIN q : tiles'[l].inst = tile[q[k]] /\ tiles'[l].after = FreeAfter(q[k])
      BY <1>13, <2>2, <3>2
    <3> QED BY <1>5, <3>1, <3>2
  <2>3. \A x \in Array : Alive(x)' =>
          /\ Alive(x) /\ tile'[x] = tile[x] /\ rw'[x] = rw[x] /\ war'[x] = war[x]
          /\ val'[x] = val[x] /\ data'[tile[x]] = data[tile[x]]
    BY <1>8, <1>11
  <2> QED BY <1>9, <2>1, <2>2, <2>3, Handover
<1>15. Counts'
  <2>1. \A i \in Inst : ist'[i] # "none" <=> ist[i] # "none" BY <1>4
  <2>2. \A x \in Array : ast'[x] # "none" <=> ast[x] # "none" BY <1>8 DEF Alive
  <2> QED BY <1>7, <1>9, <2>1, <2>2 DEF IInv, Counts
<1>16. \A x \in Array : Alive(x)' => ist'[tile[x]] = "live"
  <2> SUFFICES ASSUME NEW x \in Array, Alive(x)', ist'[tile[x]] # "live" PROVE FALSE OBVIOUS
  <2>1. Alive(x) /\ x \notin A /\ tile[x] \in Inst /\ ist[tile[x]] = "live" BY <1>11, <1>12
  <2>2. PICK a \in A : tile[a] = tile[x] BY <1>2, <1>4, <2>1
  <2>3. a = x BY <2>1, <2>2 DEF IInv, Apart
  <2> QED BY <2>1, <2>3
<1>17. Exist'
  <2>1. \A x \in Array : ast'[x] = "none" => war'[x] = {} /\ val'[x] = None BY <1>8 DEF IInv, Exist
  <2>2. \A x \in Array : Alive(x)' => /\ ashape'[x] \in Shape
                                      /\ tile'[x] \in Inst /\ ist'[tile'[x]] = "live"
    BY <1>8, <1>11, <1>16 DEF IInv, Exist
  <2>3. ASSUME NEW l \in DOMAIN tiles' PROVE ist'[tiles'[l].inst] = "live"
    <3>1. tileCache
      <4>1. ~tileCache => DOMAIN tiles' = {} BY <1>3
      <4> QED BY <4>1
    <3>2. CASE l \in DOMAIN tiles
      <4>1. tiles[l].inst \in Inst /\ ist[tiles[l].inst] = "live" BY <3>2, TileEntry DEF IInv, Exist
      <4>2. \A a \in A : tile[a] # tiles[l].inst BY <3>2 DEF IInv, Apart
      <4>3. ist'[tiles[l].inst] = "live" BY <1>2, <1>4, <4>1, <4>2
      <4> QED BY <1>5, <3>2, <4>3
    <3>3. CASE \E k \in DOMAIN q : tiles'[l].inst = tile[q[k]] BY <1>3, <3>1, <3>3
    <3> QED BY <1>5, <3>2, <3>3
  <2>4. tileCache' \/ tiles' = <<>> BY <1>3
  <2> QED BY <2>1, <2>2, <2>3, <2>4 DEF Exist
<1>18. Apart'
  <2>1. \A x, y \in Array : Alive(x)' /\ Alive(y)' /\ tile'[x] = tile'[y] => x = y
    BY <1>8, <1>11 DEF IInv, Apart
  <2>2. /\ \A k \in DOMAIN tiles, x \in Array : Alive(x) => tile[x] # tiles[k].inst
        /\ \A x, y \in Array : Alive(x) /\ Alive(y) /\ tile[x] = tile[y] => x = y
        /\ \A k, l \in DOMAIN tiles : tiles[k].inst = tiles[l].inst => k = l
    BY DEF IInv, Apart
  <2>3. \A k, l \in DOMAIN tiles' : tiles'[k].inst = tiles'[l].inst => k = l
    <3> SUFFICES ASSUME NEW k \in DOMAIN tiles', NEW l \in DOMAIN tiles',
                        tiles'[k].inst = tiles'[l].inst
                 PROVE  k = l
      OBVIOUS
    <3> DEFINE New(j) == \E n \in DOMAIN q : j = Len(tiles) + n /\ tiles'[j].inst = tile[q[n]]
    <3>1. (k \in DOMAIN tiles \/ New(k)) /\ (l \in DOMAIN tiles \/ New(l)) BY <1>5
    <3>2. CASE k \in DOMAIN tiles /\ l \in DOMAIN tiles BY <1>5, <2>2, <3>2
    <3>3. CASE k \in DOMAIN tiles /\ New(l) BY <1>2, <1>5, <2>2, <3>3
    <3>4. CASE New(k) /\ l \in DOMAIN tiles BY <1>2, <1>5, <2>2, <3>4
    <3>5. CASE New(k) /\ New(l)
      <4>1. PICK n \in DOMAIN q : k = Len(tiles) + n /\ tiles'[k].inst = tile[q[n]] BY <3>5
      <4>2. PICK j \in DOMAIN q : l = Len(tiles) + j /\ tiles'[l].inst = tile[q[j]] BY <3>5
      <4>3. q[n] = q[j] BY <1>2, <2>2, <4>1, <4>2
      <4> QED BY <1>2, <4>1, <4>2, <4>3
    <3> HIDE DEF New
    <3> QED BY <3>1, <3>2, <3>3, <3>4, <3>5
  <2>4. ASSUME NEW l \in DOMAIN tiles', NEW x \in Array, Alive(x)' PROVE tile'[x] # tiles'[l].inst
    <3>1. x \notin A /\ Alive(x) /\ tile'[x] = tile[x] BY <1>8, <1>11, <2>4
    <3>2. CASE l \in DOMAIN tiles BY <1>5, <2>2, <3>1, <3>2
    <3>3. CASE \E k \in DOMAIN q : tiles'[l].inst = tile[q[k]] BY <1>2, <2>2, <3>1, <3>3
    <3> QED BY <1>5, <3>2, <3>3
  <2> QED BY <2>1, <2>3, <2>4 DEF Apart
<1>19. Kept'
  <2> SUFFICES ASSUME NEW i \in Inst, ist'[i] = "live"
               PROVE  (\E x \in Array : Owns(x, i)') \/ \E l \in DOMAIN tiles' : tiles'[l].inst = i
    BY DEF Kept
  <2>1. ist[i] = "live" BY <1>4
  <2>2. (\E x \in Array : Owns(x, i)) \/ \E l \in DOMAIN tiles : tiles[l].inst = i
    BY <2>1 DEF IInv, Kept
  <2>3. CASE \E l \in DOMAIN tiles : tiles[l].inst = i BY <1>5, <2>3
  <2>4. CASE \E x \in Array : Owns(x, i)
    <3>1. PICK x \in Array : Alive(x) /\ tile[x] = i BY <2>4 DEF Owns
    <3>2. CASE x \notin A
      <4>1. Owns(x, i)' BY <1>8, <1>11, <3>1, <3>2 DEF Owns
      <4> QED BY <4>1
    <3>3. CASE x \in A
      <4>1. tileCache /\ \E k \in DOMAIN q : q[k] = x BY <1>3, <3>1, <3>3
      <4>2. PICK k \in DOMAIN q : q[k] = x BY <4>1
      <4> QED BY <1>3, <3>1, <4>1, <4>2
    <3> QED BY <3>2, <3>3
  <2> QED BY <2>2, <2>3, <2>4
<1>20. Queues'
  <2> SUFFICES ASSUME NEW m \in Mem, NEW s \in Shape, NEW k \in DOMAIN arrays'[m][s]
               PROVE  /\ ast'[arrays'[m][s][k]] = "cached"
                      /\ acache'[arrays'[m][s][k]] = m /\ ashape'[arrays'[m][s][k]] = s
                      /\ \A l \in DOMAIN arrays'[m][s] : arrays'[m][s][l] = arrays'[m][s][k] => l = k
    BY DEF Queues
  <2>1. arrays'[m][s] = arrays[m][s] OBVIOUS
  <2>2. arrays'[m][s] \in Seq(Array) OBVIOUS
  <2>3. arrays'[m][s][k] \in Array /\ arrays'[m][s][k] \notin A BY <2>2
  <2>4. /\ ast[arrays[m][s][k]] = "cached"
        /\ acache[arrays[m][s][k]] = m /\ ashape[arrays[m][s][k]] = s
        /\ \A l \in DOMAIN arrays[m][s] : arrays[m][s][l] = arrays[m][s][k] => l = k
    BY <2>1 DEF IInv, Queues
  <2> QED BY <1>8, <2>1, <2>3, <2>4
<1>21. Calls' BY DEF Calls, Idle
<1>22. Ids'
  <2>1. \A x \in Array : id[x] < nextId /\ nextId \in 1 .. NArrays + 1 /\ id[x] \in Nat
    BY <1>2 DEF IInv, Ids, TypeOK
  <2>2. \A x \in Array : id'[x] < nextId' BY <1>7, <1>8, <2>1, Domains
  <2>3. \A x, y \in Array : Alive(x) /\ Alive(y) /\ x # y /\ id[x] = id[y] => given[x] \/ given[y]
    BY DEF IInv, Ids
  <2>4. \A x \in Array : Alive(x)' => Alive(x) /\ id'[x] = id[x] /\ given'[x] = given[x]
    BY <1>8, <1>11
  <2>5. \A x, y \in Array : Alive(x)' /\ Alive(y)' /\ x # y /\ id'[x] = id'[y] => given'[x] \/ given'[y]
    BY <2>3, <2>4
  <2> QED BY <2>2, <2>5 DEF Ids
<1> QED BY <1>10, <1>14, <1>15, <1>17, <1>18, <1>19, <1>20, <1>21, <1>22 DEF IInv, Dynamic

\* ~Store of an array that is in no cache.
LEMMA DestroyStep ==
  ASSUME IInv, call' = Idle, NEW a \in Array, ast[a] = "held", Destroy({a}),
         tileCache' = tileCache, data' = data, arrays' = arrays, UNCHANGED opVars
  PROVE  IInv'
<1>1. arrays \in [Mem -> [Shape -> Seq(Array)]] BY DEF IInv, TypeOK
<1>2. \A m \in Mem, s \in Shape : \A k \in DOMAIN arrays[m][s] : arrays[m][s][k] \notin {a}
  BY DEF IInv, Queues
<1>3. {a} \in SUBSET Array /\ \A x \in {a} : Alive(x) BY DEF Alive
<1> QED BY <1>1, <1>2, <1>3, GiveUp

\* Dropping an array keeps the invariant.
LEMMA DropStep ==
  ASSUME IInv, NEW a \in Array, Drop(a)
  PROVE  IInv'
<1>1. /\ call.phase = "idle" /\ ast[a] = "held"
      /\ Destroy({a}) /\ tileCache' = tileCache /\ data' = data /\ arrays' = arrays /\ call' = call
      /\ UNCHANGED opVars
  BY DEF Drop, Ready
<1>2. call' = Idle BY <1>1 DEF IInv, Calls
<1> QED BY <1>1, <1>2, DestroyStep

\* A failed allocation keeps the invariant.
LEMMA ThrowStep ==
  ASSUME IInv, Throw
  PROVE  IInv'
<1>1. /\ call.phase = "retry" /\ call' = Idle /\ tileCache' = tileCache /\ data' = data
      /\ arrays' = arrays /\ UNCHANGED opVars
  BY DEF Throw, Refused
<1>2. CASE call.src = None \/ call.save = None
  <2>1. UNCHANGED instVars /\ tiles' = tiles /\ UNCHANGED arrayVars /\ UNCHANGED storeVars
    BY <1>2 DEF Throw
  <2>2. ist' = ist /\ imem' = imem /\ ishape' = ishape /\ doom' = doom BY <2>1 DEF instVars
  <2>3. Calls' BY <1>1 DEF Calls, Idle
  <2>4. call' \in CallType BY <1>1, IdleFields
  <2> QED BY <1>1, <2>1, <2>2, <2>3, <2>4, OnlyCall
<1>3. CASE ~(call.src = None \/ call.save = None)
  <2>1. Destroy({call.src}) BY <1>3 DEF Throw
  <2>2. ast[call.src] = "held" BY <1>1, <1>3 DEF IInv, Calls
  <2>3. call.src \in Array BY <1>3 DEF IInv, TypeOK
  <2> QED BY <1>1, <2>1, <2>2, <2>3, DestroyStep
<1> QED BY <1>2, <1>3

\* InstanceCache::Clear keeps the invariant.
LEMMA ClearStep ==
  ASSUME IInv, NEW n \in Mem, Clear(n)
  PROVE  IInv'
<1> DEFINE A == CachedArrays(n)
<1>1. /\ call.phase = "idle" /\ Destroy(A)
      /\ arrays' = [arrays EXCEPT ![n] = [s \in Shape |-> <<>>]]
      /\ tileCache' = tileCache /\ data' = data /\ call' = call /\ UNCHANGED opVars
  BY DEF Clear, Ready
<1>2. call' = Idle BY <1>1 DEF IInv, Calls
<1>3. A \in SUBSET Array /\ \A a \in A : Alive(a) /\ acache[a] = n BY DEF CachedArrays, Alive
<1> HIDE DEF A
<1>4. /\ arrays' \in [Mem -> [Shape -> Seq(Array)]]
      /\ \A m \in Mem, s \in Shape : arrays'[m][s] = IF m = n THEN <<>> ELSE arrays[m][s]
  <2>1. arrays \in [Mem -> [Shape -> Seq(Array)]] BY DEF IInv, TypeOK
  <2>2. [s \in Shape |-> <<>>] \in [Shape -> Seq(Array)] OBVIOUS
  <2> QED BY <1>1, <2>1, <2>2
<1>5. ASSUME NEW m \in Mem, NEW s \in Shape, NEW k \in DOMAIN arrays'[m][s]
      PROVE  arrays'[m][s][k] \notin A
  <2>1. m # n /\ arrays'[m][s] = arrays[m][s] BY <1>4
  <2>2. acache[arrays[m][s][k]] = m BY <2>1 DEF IInv, Queues
  <2> QED BY <1>3, <2>1, <2>2
<1> QED BY <1>1, <1>2, <1>3, <1>4, <1>5, GiveUp

-----------------------------------------------------------------------------
(***************************************************************************)
(* The invariant and the properties.                                       *)
(***************************************************************************)
LEMMA InitIInv == Init => IInv
<1> SUFFICES ASSUME Init PROVE IInv OBVIOUS
<1> USE Domains DEF Init
<1>1. TypeOK
  <2>1. call \in CallType BY IdleFields
  <2>2. tiles \in Seq([inst : Inst, after : SUBSET Op]) /\ DOMAIN tiles = {} OBVIOUS
  <2>3. arrays \in [Mem -> [Shape -> Seq(Array)]] OBVIOUS
  <2>4. nextId \in 1 .. NArrays + 1 /\ launched \in 0 .. NOps OBVIOUS
  <2>5. id \in [Array -> 0 .. NArrays] BY DEF None
  <2> QED BY <2>1, <2>2, <2>3, <2>4, <2>5 DEF TypeOK, CallType
<1>2. \A a \in Array : ast[a] = "none" /\ ~Alive(a) BY DEF Alive
<1>3. DOMAIN tiles = {} /\ tiles = <<>> OBVIOUS
<1>4. \A o \in Op : ost[o] = "none" /\ ~Pending(o) BY DEF Pending
<1>5. Counts
  <2>1. \A a \in Array : ~(a < nextId) BY DEF Array
  <2>2. \A o \in Op : ~(o <= launched) BY DEF Op
  <2>3. \A i \in Inst : ~(i <= 0) /\ ist[i] = "none" BY DEF Inst
  <2>4. 0 \in 0 .. NInst OBVIOUS
  <2> QED BY <1>2, <1>4, <2>1, <2>2, <2>3, <2>4 DEF Counts
<1>6. Exist BY <1>2, <1>3 DEF Exist
<1>7. Apart BY <1>2, <1>3 DEF Apart
<1>8. Kept BY DEF Kept
<1>9. Queues BY DEF Queues
<1>10. Calls BY IdleFields DEF Calls
<1>11. Ids BY <1>2 DEF Ids, None
<1>12. Ops /\ Guarded /\ Ordered /\ Valued
  BY <1>2, <1>3, <1>4 DEF Ops, Guarded, Ordered, Valued, Using
<1> QED BY <1>1, <1>5, <1>6, <1>7, <1>8, <1>9, <1>10, <1>11, <1>12 DEF IInv

\* A step that changes nothing keeps the invariant.
LEMMA StutterStep ==
  ASSUME IInv, UNCHANGED vars
  PROVE  IInv'
<1>1. /\ tileCache' = tileCache /\ UNCHANGED instVars /\ data' = data /\ UNCHANGED arrayVars
      /\ UNCHANGED storeVars /\ tiles' = tiles /\ arrays' = arrays /\ call' = call
      /\ UNCHANGED opVars
  BY DEF vars
<1>2. /\ ist' = ist /\ imem' = imem /\ ishape' = ishape /\ doom' = doom
      /\ ast' = ast /\ acache' = acache /\ ashape' = ashape /\ tile' = tile /\ id' = id /\ given' = given /\ nextId' = nextId
      /\ rw' = rw /\ hasRw' = hasRw /\ war' = war /\ hasWar' = hasWar /\ val' = val
      /\ launched' = launched /\ from' = from /\ to' = to /\ opre' = opre /\ ost' = ost /\ want' = want
  BY <1>1 DEF instVars, arrayVars, storeVars, opVars
<1>3. TypeOK' BY <1>1, <1>2 DEF IInv, TypeOK
<1>4. Dynamic'
  <2>1. \A o \in Op, i \in Inst : Using(o, i) =>
          /\ data'[i] = data[i] /\ ist'[i] \in {"live", "lost", "doomed"}
          /\ ist'[i] = "doomed" => Covered(o, doom'[i])
    BY <1>1, <1>2 DEF IInv, Ops, Guarded
  <2>2. \A o \in Op : \A k \in DOMAIN tiles' : Using(o, tiles'[k].inst) => Covered(o, tiles'[k].after)
    BY <1>1 DEF IInv, Guarded
  <2>3. \A a \in Array : Alive(a)' => Alive(a) BY <1>2 DEF Alive
  <2> QED BY <1>1, <1>2, <2>1, <2>2, <2>3, Handover
<1>5. \A o \in Op : ost'[o] # "none" <=> o <= launched' BY <1>2 DEF IInv, Counts
<1>6. \A a \in Array : ast[a] = "none" => war'[a] = {} /\ val'[a] = None BY <1>2 DEF IInv, Exist
<1> QED BY <1>1, <1>2, <1>3, <1>4, <1>5, <1>6, OpStep

\* Every step keeps the invariant.
LEMMA NextIInv == IInv /\ [Next]_vars => IInv'
<1> SUFFICES ASSUME IInv, [Next]_vars PROVE IInv' OBVIOUS
<1>1. CASE \E m \in Mem, s \in Shape : Create(m, s) BY <1>1, CreateStep
<1>2. CASE Allocate BY <1>2, AllocateStep
<1>3. CASE ClearTiles BY <1>3, ClearTilesStep
<1>4. CASE Throw BY <1>4, ThrowStep
<1>5. CASE \E a \in Array : Drop(a) BY <1>5, DropStep
<1>6. CASE \E a \in Array : LaunchWrite(a) BY <1>6, LaunchWriteStep
<1>7. CASE \E a \in Array : LaunchRead(a) BY <1>7, LaunchReadStep
<1>8. CASE \E a \in Array : Wait(a) BY <1>8, WaitStep
<1>9. CASE \E a \in Array, m \in Mem, save \in Mem \cup {None} : MoveBegin(a, m, save)
  BY <1>9, MoveBeginStep
<1>10. CASE MoveFinish BY <1>10, MoveFinishStep
<1>11. CASE \E m \in Mem : Clear(m) BY <1>11, ClearStep
<1>12. CASE \E i \in Inst : Reclaim(i) BY <1>12, ReclaimStep
<1>13. CASE \E o \in Op : Start(o) BY <1>13, StartStep
<1>14. CASE \E o \in Op : Complete(o) BY <1>14, CompleteStep
<1>15. CASE Quiet \/ UNCHANGED vars BY <1>15, StutterStep DEF Quiet
<1>16. CASE \E m \in Mem, s \in Shape, min \in MinSizes : CacheGet(m, s, min) BY <1>16, CacheGetStep
<1>17. CASE \E a \in Array, m \in Mem : CacheFree(a, m) BY <1>17, CacheFreeStep
<1>18. CASE \E a, b \in Array : MoveInto(a, b) BY <1>18, MoveIntoStep
<1> QED BY <1>1, <1>2, <1>3, <1>4, <1>5, <1>6, <1>7, <1>8, <1>9, <1>10, <1>11, <1>12, <1>13,
           <1>14, <1>15, <1>16, <1>17, <1>18 DEF Next

\* The inductive invariant: every instance has at most one owner, every owner an event
\* that covers the pending uses of it, and conflicting uses are ordered by events.
THEOREM IInvAlways == Spec => []IInv
<1>1. IInv /\ [Next]_vars => IInv' BY NextIInv
<1> QED BY <1>1, InitIInv, PTL DEF Spec

\* Every variable stays in its domain, whatever the program does with memories and arrays.
THEOREM TypeCorrect == Spec => []TypeOK
<1>1. IInv => TypeOK BY DEF IInv
<1> QED BY <1>1, IInvAlways, PTL

\* Instances are never destroyed, overwritten or read too early by tasks and copies,
\* although DeferredDeleteInstances, the caches and MoveToMemory pass them on while tasks
\* still use them.
THEOREM AccessAlwaysSafe == Spec => []SafeAccess
<1>1. ASSUME IInv PROVE SafeAccess
  <2>1. ASSUME NEW o \in Running, NEW i \in Touches(o) PROVE There(i)
    <3>1. o \in Op /\ Pending(o) BY DEF Running, Pending
    <3>2. i \in Inst
      <4>1. from[o] \in Inst \cup {None} /\ to[o] \in Inst \cup {None} BY <1>1, <3>1 DEF IInv, TypeOK
      <4> QED BY <4>1 DEF Touches
    <3>3. Using(o, i) BY <3>1 DEF Using, Touches
    <3> QED BY <1>1, <3>1, <3>2, <3>3 DEF IInv, Ops, There
  <2>2. ASSUME NEW o \in Running, NEW p \in Running \ {o}, to[o] \in Touches(p) PROVE FALSE
    <3>1. o \in Op /\ p \in Op /\ o # p /\ Pending(o) /\ Pending(p) /\ opre[o] = {} /\ opre[p] = {}
      BY <1>1 DEF Running, Pending, IInv, Ops
    <3>2. to[o] \in Inst
      <4>1. to[o] \in Inst \cup {None} BY <1>1, <3>1 DEF IInv, TypeOK
      <4> QED BY <2>2, <4>1 DEF Touches
    <3>3. Using(o, to[o]) /\ Using(p, to[o]) BY <2>2, <3>1 DEF Using, Touches
    <3>4. o < p \/ p < o
      <4>1. o \in Nat /\ p \in Nat BY <3>1, Domains
      <4> QED BY <3>1, <4>1
    <3>5. CASE o < p
      <4>1. Covered(o, opre[p]) BY <1>1, <3>1, <3>2, <3>3, <3>5 DEF IInv, Ordered
      <4> QED BY <3>1, <4>1 DEF Covered
    <3>6. CASE p < o
      <4>1. Covered(p, opre[o]) BY <1>1, <3>1, <3>2, <3>3, <3>6 DEF IInv, Ordered
      <4> QED BY <3>1, <4>1 DEF Covered
    <3> QED BY <3>4, <3>5, <3>6
  <2> QED BY <2>1, <2>2 DEF SafeAccess
<1> QED BY <1>1, IInvAlways, PTL

\* A task or copy finds what the program wrote last, through moves and reuse of tiles.
THEOREM ReadsAlwaysCurrent == Spec => []ReadsCurrent
<1>1. ASSUME IInv PROVE ReadsCurrent
  <2> SUFFICES ASSUME NEW o \in Running, want[o] # None PROVE data[from[o]] = want[o]
    BY DEF ReadsCurrent
  <2>1. o \in Op /\ Pending(o) /\ opre[o] = {} BY <1>1 DEF Running, Pending, IInv, Ops
  <2>2. from[o] \in Inst /\ Current(from[o], want[o], o) BY <1>1, <2>1 DEF IInv, Valued
  <2>3. ASSUME NEW w \in Op, Writes(w, from[o]), w < o PROVE FALSE
    <3>1. Using(w, from[o]) /\ Using(o, from[o]) /\ to[w] = from[o] BY <2>1, <2>3 DEF Using, Writes
    <3>2. Covered(w, opre[o]) BY <1>1, <2>1, <2>2, <2>3, <3>1 DEF IInv, Ordered
    <3> QED BY <2>1, <3>2 DEF Covered
  <2> QED BY <2>2, <2>3 DEF Current
<1> QED BY <1>1, IInvAlways, PTL

\* An id has at most one array that has not given it away, whatever the program moves,
\* caches and takes out of the caches again.
THEOREM IdsAlwaysUnique == Spec => []UniqueIds
<1>1. ASSUME IInv PROVE UniqueIds BY <1>1 DEF UniqueIds, IInv, Ids
<1> QED BY <1>1, IInvAlways, PTL

\* No tile is handed out twice, freed twice or used after that, whichever way its array
\* ended.
THEOREM AlwaysOneOwner == Spec => []OneOwner
<1>1. ASSUME IInv PROVE OneOwner
  <2> SUFFICES ASSUME NEW i \in Inst
               PROVE  Cardinality(Owners(i)) = IF ist[i] = "live" THEN 1 ELSE 0
    BY DEF OneOwner
  <2> DEFINE K == {j \in DOMAIN tiles : tiles[j].inst = i}
             A == {a \in Array : Owns(a, i)}
  <2>1. Owners(i) = A \cup {-k : k \in K} BY DEF Owners
  <2>2. /\ \A a, b \in A : a = b
        /\ \A k, l \in K : k = l
        /\ \A a \in A, k \in K : FALSE
    BY <1>1 DEF IInv, Apart, Owns
  <2>3. CASE ist[i] = "live"
    <3>1. A # {} \/ K # {} BY <1>1, <2>3 DEF IInv, Kept
    <3> HIDE DEF A, K
    <3>2. CASE A # {}
      <4>1. PICK a \in A : TRUE BY <3>2
      <4>2. Owners(i) = {a} BY <2>1, <2>2, <4>1
      <4> QED BY <2>3, <4>2, FS_Singleton
    <3>3. CASE K # {}
      <4>1. PICK k \in K : TRUE BY <3>3
      <4>2. K = {k} /\ A = {} BY <2>2, <4>1
      <4>3. Owners(i) = {-k} BY <2>1, <4>2
      <4> QED BY <2>3, <4>3, FS_Singleton
    <3> QED BY <3>1, <3>2, <3>3
  <2>4. CASE ist[i] # "live"
    <3>1. A = {} /\ K = {} BY <1>1, <2>4 DEF IInv, Exist, Owns
    <3>2. Owners(i) = {} BY <2>1, <3>1
    <3> QED BY <2>4, <3>2, FS_EmptySet
  <2> QED BY <2>3, <2>4
<1> QED BY <1>1, IInvAlways, PTL

\* AllocationFailure is thrown only when tiles of arrays, and tiles that ~Store lost, fill
\* the memory: the tile cache was emptied, and no destruction is still to come.
THEOREM CachesAlwaysGiveWay == Spec => CachesGiveWay
<1>1. ASSUME IInv, Throw PROVE Cardinality(Stuck(call.mem)) >= Capacity[call.mem]
  <2> DEFINE m == call.mem
  <2>1. call.phase = "retry" /\ ~HasRoom(m) /\ ~MayGetRoom(m) BY <1>1 DEF Throw, Refused
  <2>2. m \in Mem /\ tiles = <<>> /\ DOMAIN tiles = {} BY <1>1, <2>1 DEF IInv, Calls
  <2>3. ASSUME NEW i \in Placed(m) PROVE i \in Stuck(m)
    <3>1. i \in Inst /\ imem[i] = m /\ ist[i] \in {"live", "lost"}
      BY <2>1 DEF MayGetRoom, Placed, There
    <3>2. ist[i] = "live" => \E a \in Array : Owns(a, i) BY <1>1, <2>2, <3>1 DEF IInv, Kept
    <3> QED BY <3>1, <3>2 DEF Stuck
  <2>4. IsFiniteSet(Stuck(m)) BY Domains, FS_Subset DEF Stuck
  <2>5. /\ Cardinality(Placed(m)) <= Cardinality(Stuck(m))
        /\ Cardinality(Placed(m)) \in Nat /\ Cardinality(Stuck(m)) \in Nat
    <3>1. Placed(m) \subseteq Stuck(m) BY <2>3
    <3> QED BY <2>4, <3>1, FS_Subset, FS_CardinalityType
  <2>6. ~(Cardinality(Placed(m)) < Capacity[m]) BY <2>1 DEF HasRoom
  <2>7. Capacity[m] \in Nat BY <2>2, CapacityAssumption
  <2>8. Cardinality(Stuck(m)) >= Capacity[m] BY <2>5, <2>6, <2>7
  <2> QED BY <2>8
<1>2. IInv => [Throw => Cardinality(Stuck(call.mem)) >= Capacity[call.mem]]_vars BY <1>1
<1> QED BY <1>2, IInvAlways, PTL DEF CachesGiveWay

=============================================================================
