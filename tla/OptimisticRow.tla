--------------------------- MODULE OptimisticRow ---------------------------
(***************************************************************************)
(* What If-Match promises: a request names a version that the row has or   *)
(* had, and changes the row only while it still has that version, once.    *)
(***************************************************************************)
EXTENDS Naturals

CONSTANT Requests

VARIABLES
  version,      \* of the row
  named,        \* the version each request names; 0: it has not come yet
  applied       \* requests that changed the row

Init ==
  /\ version = 1
  /\ named = [r \in Requests |-> 0]
  /\ applied = {}

Name(r) ==
  /\ named[r] = 0
  /\ \E v \in 1 .. version : named' = [named EXCEPT ![r] = v]
  /\ UNCHANGED <<version, applied>>

Apply(r) ==
  /\ r \notin applied /\ named[r] = version
  /\ version' = version + 1
  /\ applied' = applied \cup {r}
  /\ UNCHANGED named

Next == \E r \in Requests : Name(r) \/ Apply(r)

Spec == Init /\ [][Next]_<<version, named, applied>>
=============================================================================
