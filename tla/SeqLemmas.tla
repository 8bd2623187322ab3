----------------------------- MODULE SeqLemmas -----------------------------
(***************************************************************************)
(* Facts about sequences used as queues, for the proof modules.            *)
(***************************************************************************)
EXTENDS SequencesExt, SequenceTheorems, TLAPS

\* Appending to a sequence keeps its elements; the last is the new one.
LEMMA AppendAt ==
  ASSUME NEW S, NEW q \in Seq(S), NEW e \in S
  PROVE  /\ Append(q, e) \in Seq(S) /\ Len(Append(q, e)) = Len(q) + 1 /\ Len(q) \in Nat
         /\ \A i \in 1 .. Len(q) : Append(q, e)[i] = q[i] /\ q[i] \in S
         /\ Append(q, e)[Len(q) + 1] = e
         /\ Append(q, e) # <<>>
OBVIOUS

\* The tail of a sequence has its elements one place further ahead.
LEMMA TailAt ==
  ASSUME NEW S, NEW q \in Seq(S), q # <<>>
  PROVE  /\ Tail(q) \in Seq(S) /\ Len(Tail(q)) = Len(q) - 1 /\ Len(q) \in Nat /\ Len(q) >= 1
         /\ \A i \in 1 .. Len(q) - 1 : Tail(q)[i] = q[i + 1]
         /\ Head(q) = q[1] /\ q[1] \in S
OBVIOUS

\* A sequence without an element closes the gap.
LEMMA RemoveAtAt ==
  ASSUME NEW S, NEW q \in Seq(S), NEW n \in 1 .. Len(q)
  PROVE  /\ RemoveAt(q, n) \in Seq(S) /\ Len(RemoveAt(q, n)) = Len(q) - 1 /\ Len(q) \in Nat
         /\ \A i \in 1 .. Len(q) - 1 : RemoveAt(q, n)[i] = IF i < n THEN q[i] ELSE q[i + 1]
<1> DEFINE l == SubSeq(q, 1, n - 1)
           r == SubSeq(q, n + 1, Len(q))
<1>1. Len(q) \in Nat /\ \A i \in 1 .. Len(q) : q[i] \in S OBVIOUS
<1>2. l \in Seq(S) /\ Len(l) = n - 1 /\ \A i \in 1 .. n - 1 : l[i] = q[i]
  BY <1>1, SubSeqProperties
<1>3. r \in Seq(S) /\ Len(r) = Len(q) - n /\ \A i \in 1 .. Len(q) - n : r[i] = q[n + i]
  BY <1>1, SubSeqProperties
<1>4. RemoveAt(q, n) = l \o r BY DEF RemoveAt
<1> HIDE DEF l, r
<1>5. /\ l \o r \in Seq(S) /\ Len(l \o r) = Len(l) + Len(r)
      /\ \A i \in 1 .. Len(l) + Len(r) : (l \o r)[i] = IF i <= Len(l) THEN l[i] ELSE r[i - Len(l)]
  BY <1>2, <1>3, ConcatProperties
<1> QED BY <1>1, <1>2, <1>3, <1>4, <1>5
=============================================================================
