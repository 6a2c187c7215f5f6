--------------------------- MODULE MCEnrollClient ---------------------------
(***************************************************************************)
(* One identity on one machine, an enrollment beside renewals.             *)
(***************************************************************************)
EXTENDS EnrollClientProperties, TLC

CONSTANTS a, b, k1, k2, k3, j1, j2, j3, w1, w2
=============================================================================
