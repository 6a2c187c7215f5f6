------------------------- MODULE EnrollmentRegistry -------------------------
(***************************************************************************)
(* The origin-side enrollment inventory (src/enrollment_registry.rs) as a  *)
(* value: a set of records and the pure operations the CA commands apply   *)
(* to it before they save it.  A record names a logical identity, the key  *)
(* it certifies, its renewal JWK and a lifecycle status.  The file keeps a *)
(* vector, but nothing depends on its order and validation forbids two     *)
(* records with the same key, so a set carries the same information.       *)
(***************************************************************************)

CONSTANTS
  Id,     \* logical identities: a host, a user on a client host, an X.509 name on a host
  Key,    \* certified public keys, SSH or X.509, told apart by fingerprint
  Ren     \* renewal JWKs, told apart by thumbprint

Status == {"Pending", "Active", "Revoked"}

\* The public part of a request: what a host or user asks the CA to enroll.
Candidate == [id : Id, key : Key, ren : Ren]

Record == [id : Id, key : Key, ren : Ren, status : Status]

AsRecord(c, status) == [id |-> c.id, key |-> c.key, ren |-> c.ren, status |-> status]

SameKeys(r, c) == r.key = c.key /\ r.ren = c.ren

SharesKey(r, c) == r.key = c.key \/ r.ren = c.ren

Live(reg) == {r \in reg : r.status # "Revoked"}

\* The one non-revoked record of an identity, as a set of at most one.
LiveOf(reg, i) == {r \in Live(reg) : r.id = i}

\* Mutant: keys assigned to another live identity are not compared.
CheckCandidateOwnOnly(reg, c) ==
  \A r \in reg : /\ r.status = "Revoked" => ~SharesKey(r, c)
                 /\ r.status # "Revoked" /\ r.id = c.id => SameKeys(r, c)

(***************************************************************************)
(* A key stays dead once revoked, an identity has one key pair at a time,  *)
(* and no two identities share either key.                                 *)
(***************************************************************************)
CheckCandidate(reg, c) ==
  \A r \in reg :
    \/ ~SharesKey(r, c) /\ (r.status = "Revoked" \/ r.id # c.id)
    \/ SameKeys(r, c) /\ r.status # "Revoked" /\ r.id = c.id

\* Whether the registry holds exactly this live enrollment with this status.
MatchingStatus(reg, c, status) ==
  \E r \in LiveOf(reg, c.id) : SameKeys(r, c) /\ r.status = status

Matches(reg, c) == \E r \in LiveOf(reg, c.id) : SameKeys(r, c)

\* Reserving an identity that is already live changes nothing.
Reserve(reg, c) ==
  IF LiveOf(reg, c.id) # {} THEN reg ELSE reg \union {AsRecord(c, "Pending")}

\* The live record of the identity becomes Active, or the candidate joins as Active.
Activate(reg, c) ==
  IF LiveOf(reg, c.id) # {}
    THEN (reg \ LiveOf(reg, c.id)) \union {AsRecord(r, "Active") : r \in LiveOf(reg, c.id)}
    ELSE reg \union {AsRecord(c, "Active")}

\* Tombstone every record that has one of the selected key pairs.
MarkRevoked(reg, selected) ==
  {IF \E s \in selected : SameKeys(r, s) THEN AsRecord(r, "Revoked") ELSE r : r \in reg}

(***************************************************************************)
(* What load and save insist on: one live record per identity, and neither *)
(* fingerprint twice, tombstones included.                                 *)
(***************************************************************************)
Validate(reg) ==
  \A r, s \in reg :
    r # s => /\ ~SharesKey(r, s)
             /\ r.status # "Revoked" /\ s.status # "Revoked" => r.id # s.id
=============================================================================
