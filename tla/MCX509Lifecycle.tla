-------------------------- MODULE MCX509Lifecycle --------------------------
(***************************************************************************)
(* One certificate, two overlapping commands.                              *)
(***************************************************************************)
EXTENDS X509LifecycleProperties, TLC

CONSTANTS a, b, k1, k2, k3, j1, j2, j3

Symmetric == Permutations(Run) \union Permutations(Key) \union Permutations(Jwk)
=============================================================================
