--------------------------- MODULE MCEnrollmentKeys ---------------------------
(***************************************************************************)
(* One host and one user to enroll, and sites with and without their keys. *)
(***************************************************************************)
EXTENDS EnrollmentKeysProperties, TLC

CONSTANTS a, b, k1, k2, ca, w1, w2, h, u

RolesOf == h :> "host" @@ u :> "user"

Site(host, user) == "host" :> host @@ "user" :> user

Old(key) == [key |-> key, enc |-> key]

\* An older site, one whose ca.json holds a wrong encryptedKey, and new ones.
Sites == {Site(Old(k1), Old(k2)), Site(Old(k1), [key |-> k2, enc |-> k1]),
          Site(Old(k1), None), Site(None, None)}
=============================================================================
