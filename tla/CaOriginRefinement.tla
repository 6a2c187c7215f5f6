------------------------- MODULE CaOriginRefinement -------------------------
(***************************************************************************)
(* The transactions of CaOrigin implement EnrollmentAuthority: the         *)
(* registry is what is known, the running step-ca is what is served, and   *)
(* the completed revocations are what is dead.                             *)
(***************************************************************************)
EXTENDS CaOriginProperties

Known == {AsCandidate(r) : r \in registry}

\* What the running step-ca renews; nothing while it is down.
Served(i) ==
  IF running = Down \/ running.prov[i] = NoProv
    THEN NoProv
    ELSE [id |-> i, key |-> running.prov[i].key, ren |-> running.prov[i].ren]

Authority == INSTANCE EnrollmentAuthority
  WITH known <- Known, serving <- [i \in Id |-> Served(i)], dead <- retired, Nobody <- NoProv

\* Every behaviour of the CA origin, failures and overlapping commands included,
\* is a behaviour of the abstract authority.
ImplementsAuthority == Authority!Spec
=============================================================================
