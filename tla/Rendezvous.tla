----------------------------- MODULE Rendezvous -----------------------------
(***************************************************************************)
(* What a point-to-point reshard promises to its two sides, without any    *)
(* manager, message or barrier: the k-th send of a key and its k-th        *)
(* receive are one copy, which happens once both have been issued and both *)
(* arrays are ready, in order, and neither side is told that its operation *)
(* is done before the copy has happened.                                   *)
(***************************************************************************)
EXTENDS Integers

CONSTANT NOps   \* bound: the reshards of one key

VARIABLES
  sIssued, tIssued,   \* sends and receives issued so far
  sReady, tReady,     \* the operations whose array is ready
  copied,             \* copies that have happened
  sDone, tDone        \* the operations whose postcondition has triggered

vars == <<sIssued, tIssued, sReady, tReady, copied, sDone, tDone>>

Op == 1 .. NOps

Init ==
  /\ sIssued = 0 /\ tIssued = 0 /\ copied = 0
  /\ sReady = {} /\ tReady = {} /\ sDone = {} /\ tDone = {}

Send ==
  /\ sIssued < NOps /\ sIssued' = sIssued + 1
  /\ UNCHANGED <<tIssued, sReady, tReady, copied, sDone, tDone>>

Receive ==
  /\ tIssued < NOps /\ tIssued' = tIssued + 1
  /\ UNCHANGED <<sIssued, sReady, tReady, copied, sDone, tDone>>

SourceReady(k) ==
  /\ k <= sIssued /\ k \notin sReady /\ sReady' = sReady \cup {k}
  /\ UNCHANGED <<sIssued, tIssued, tReady, copied, sDone, tDone>>

TargetReady(k) ==
  /\ k <= tIssued /\ k \notin tReady /\ tReady' = tReady \cup {k}
  /\ UNCHANGED <<sIssued, tIssued, sReady, copied, sDone, tDone>>

\* The next copy; a side that holds the copy's own event learns of it at once.
Copy ==
  LET k == copied + 1 IN
  /\ k <= sIssued /\ k <= tIssued
  /\ k \in sReady /\ k \in tReady
  /\ 1 .. copied \subseteq tDone      \* the target array was handed back
  /\ copied' = k
  /\ sDone' \in {sDone, sDone \cup {k}}
  /\ tDone' \in {tDone, tDone \cup {k}}
  /\ UNCHANGED <<sIssued, tIssued, sReady, tReady>>

SourceDone(k) ==
  /\ k <= copied /\ k \notin sDone /\ sDone' = sDone \cup {k}
  /\ UNCHANGED <<sIssued, tIssued, sReady, tReady, copied, tDone>>

TargetDone(k) ==
  /\ k <= copied /\ k \notin tDone /\ tDone' = tDone \cup {k}
  /\ UNCHANGED <<sIssued, tIssued, sReady, tReady, copied, sDone>>

Next ==
  \/ Send \/ Receive \/ Copy
  \/ \E k \in Op : SourceReady(k) \/ TargetReady(k) \/ SourceDone(k) \/ TargetDone(k)

Spec == Init /\ [][Next]_vars
=============================================================================
