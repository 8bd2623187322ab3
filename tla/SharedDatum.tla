---------------------------- MODULE SharedDatum -----------------------------
(***************************************************************************)
(* What a Store promises to a program, without any handle, event or tree:  *)
(* a datum that comes into being, is read by many or written by one at a   *)
(* time, and is given back when nobody uses it any more.                   *)
(***************************************************************************)
CONSTANT User   \* whoever may use the datum

VARIABLES
  phase,    \* "absent", "present" or "freed"
  readers,  \* who reads the datum now
  writers   \* who may write it now

vars == <<phase, readers, writers>>

\* The datum is still being created, or its creator uses it.
Init ==
  /\ readers = {}
  /\ \/ phase = "absent" /\ writers = {}
     \/ phase = "present" /\ \E u \in User : writers = {u}

Appear ==
  /\ phase = "absent" /\ phase' = "present"
  /\ UNCHANGED <<readers, writers>>

BeginRead(u) ==
  /\ phase = "present" /\ writers = {}
  /\ readers' = readers \cup {u}
  /\ UNCHANGED <<phase, writers>>

BeginWrite(u) ==
  /\ phase = "present" /\ readers = {} /\ writers = {}
  /\ writers' = {u}
  /\ UNCHANGED <<phase, readers>>

EndRead(u) ==
  /\ u \in readers /\ readers' = readers \ {u}
  /\ UNCHANGED <<phase, writers>>

EndWrite(u) ==
  /\ u \in writers /\ writers' = writers \ {u}
  /\ UNCHANGED <<phase, readers>>

Free ==
  /\ phase = "present" /\ readers = {} /\ writers = {}
  /\ phase' = "freed"
  /\ UNCHANGED <<readers, writers>>

Next ==
  \/ Appear \/ Free
  \/ \E u \in User : BeginRead(u) \/ BeginWrite(u) \/ EndRead(u) \/ EndWrite(u)

Spec == Init /\ [][Next]_vars
=============================================================================
