------------------------ MODULE EnrollmentAuthority ------------------------
(***************************************************************************)
(* What the CA origin promises, with no lock, file, restart or failure in  *)
(* sight.  An enrollment is reserved, its keys being new to the authority; *)
(* the authority serves reserved enrollments, at most one per identity,    *)
(* and may stop and resume serving at any time; and an enrollment that is  *)
(* retired is not served at that moment nor ever after.                    *)
(***************************************************************************)
CONSTANTS Id, Key, Ren, Nobody

VARIABLES
  known,     \* every enrollment ever reserved
  serving,   \* serving[i]: the enrollment that can renew as identity i, or Nobody
  dead       \* enrollments whose retirement has completed

vars == <<known, serving, dead>>

Enrollment == [id : Id, key : Key, ren : Ren]

Init ==
  /\ known = {}
  /\ serving = [i \in Id |-> Nobody]
  /\ dead = {}

\* Neither key was ever reserved before, by this identity or another.
Reserve(e) ==
  /\ \A f \in known : f.key # e.key /\ f.ren # e.ren
  /\ known' = known \union {e}
  /\ UNCHANGED <<serving, dead>>

\* Any of the enrollments an identity may be served with.
Servable(i) == {e \in known \ dead : e.id = i} \union {Nobody}

Serve ==
  /\ serving' \in [Id -> known \union {Nobody}]
  /\ \A i \in Id : serving'[i] \in Servable(i)
  /\ UNCHANGED <<known, dead>>

Retire(scope) ==
  /\ \A i \in scope : serving[i] = Nobody
  /\ dead' = dead \union {e \in known : e.id \in scope}
  /\ UNCHANGED <<known, serving>>

Next ==
  \/ \E e \in Enrollment : Reserve(e)
  \/ Serve
  \/ \E scope \in SUBSET Id : Retire(scope)

Spec == Init /\ [][Next]_vars
=============================================================================
