---------------------- MODULE EnrollmentRegistryProofs ----------------------
(***************************************************************************)
(* What the registry's operations preserve: a valid registry stays valid   *)
(* under a reservation, an activation and a revocation, and no operation   *)
(* forgets a tombstone.  These are the facts the CA commands rely on when  *)
(* they save the registry after step-ca already runs on the new ca.json.   *)
(***************************************************************************)
EXTENDS EnrollmentRegistry, TLAPS

\* Reserving a checked candidate keeps every record and the candidate's own check.
THEOREM ReserveValid ==
  ASSUME NEW reg \in SUBSET Record, NEW c \in Candidate,
         Validate(reg), CheckCandidate(reg, c)
  PROVE  /\ Reserve(reg, c) \in SUBSET Record
         /\ reg \subseteq Reserve(reg, c)
         /\ Validate(Reserve(reg, c))
         /\ CheckCandidate(Reserve(reg, c), c)
<1> DEFINE n == AsRecord(c, "Pending")
<1>1. n \in Record /\ n.id = c.id /\ n.key = c.key /\ n.ren = c.ren /\ n.status = "Pending"
  BY DEF AsRecord, Record, Candidate, Status
<1>2. CASE LiveOf(reg, c.id) # {}
  BY <1>2 DEF Reserve
<1>3. CASE LiveOf(reg, c.id) = {}
  <2>1. Reserve(reg, c) = reg \union {n}
    BY <1>3 DEF Reserve
  <2>2. \A r \in reg : ~SharesKey(r, c) /\ (r.status = "Revoked" \/ r.id # c.id)
    BY <1>3 DEF CheckCandidate, LiveOf, Live
  <2>3. Validate(reg \union {n})
    BY <1>1, <2>2 DEF Validate, SharesKey
  <2>4. CheckCandidate(reg \union {n}, c)
    BY <1>1, <2>2 DEF CheckCandidate, SameKeys
  <2> QED
    BY <1>1, <2>1, <2>3, <2>4
<1> QED
  BY <1>2, <1>3

\* Activating a checked candidate turns at most its own record and keeps tombstones.
THEOREM ActivateValid ==
  ASSUME NEW reg \in SUBSET Record, NEW c \in Candidate,
         Validate(reg), CheckCandidate(reg, c)
  PROVE  /\ Activate(reg, c) \in SUBSET Record
         /\ \A r \in reg : r.status = "Revoked" => r \in Activate(reg, c)
         /\ Validate(Activate(reg, c))
<1> DEFINE n == AsRecord(c, "Active")
<1>1. n \in Record /\ n.id = c.id /\ n.key = c.key /\ n.ren = c.ren /\ n.status = "Active"
  BY DEF AsRecord, Record, Candidate, Status
<1>2. CASE LiveOf(reg, c.id) # {}
  <2>1. PICK m \in reg : m.status # "Revoked" /\ m.id = c.id
    BY <1>2 DEF LiveOf, Live
  <2>2. LiveOf(reg, c.id) = {m}
    BY <2>1 DEF LiveOf, Live, Validate
  <2>3. SameKeys(m, c)
    BY <2>1 DEF CheckCandidate
  <2>4. AsRecord(m, "Active") = n
    BY <2>1, <2>3 DEF AsRecord, SameKeys
  <2>5. Activate(reg, c) = (reg \ {m}) \union {n}
    BY <1>2, <2>2, <2>4 DEF Activate
  <2>6. \A r \in reg \ {m} : ~SharesKey(r, n) /\ (r.status = "Revoked" \/ r.id # n.id)
    BY <1>1, <2>1, <2>3 DEF Validate, SharesKey, SameKeys
  <2>7. Validate((reg \ {m}) \union {n})
    BY <2>6 DEF Validate, SharesKey
  <2> QED
    BY <1>1, <2>1, <2>5, <2>7
<1>3. CASE LiveOf(reg, c.id) = {}
  <2>1. Activate(reg, c) = reg \union {n}
    BY <1>3 DEF Activate
  <2>2. \A r \in reg : ~SharesKey(r, c) /\ (r.status = "Revoked" \/ r.id # c.id)
    BY <1>3 DEF CheckCandidate, LiveOf, Live
  <2>3. Validate(reg \union {n})
    BY <1>1, <2>2 DEF Validate, SharesKey
  <2> QED
    BY <1>1, <2>1, <2>3
<1> QED
  BY <1>2, <1>3

\* Revoking keeps every key pair, keeps tombstones and adds those selected.
THEOREM MarkRevokedValid ==
  ASSUME NEW reg \in SUBSET Record, NEW selected, Validate(reg)
  PROVE  /\ MarkRevoked(reg, selected) \in SUBSET Record
         /\ \A r \in reg : r.status = "Revoked" => r \in MarkRevoked(reg, selected)
         /\ \A r \in reg \cap selected : AsRecord(r, "Revoked") \in MarkRevoked(reg, selected)
         /\ Validate(MarkRevoked(reg, selected))
<1> DEFINE Image(r) == IF \E s \in selected : SameKeys(r, s) THEN AsRecord(r, "Revoked") ELSE r
<1>1. MarkRevoked(reg, selected) = {Image(r) : r \in reg}
  BY DEF MarkRevoked
<1>2. ASSUME NEW r \in reg
      PROVE  /\ Image(r) \in Record
             /\ Image(r).id = r.id /\ Image(r).key = r.key /\ Image(r).ren = r.ren
             /\ Image(r).status \in {r.status, "Revoked"}
             /\ r.status = "Revoked" => Image(r) = r
             /\ r \in selected => Image(r) = AsRecord(r, "Revoked")
  <2>1. /\ AsRecord(r, "Revoked") \in Record
        /\ r.status = "Revoked" => AsRecord(r, "Revoked") = r
    BY DEF AsRecord, Record, Status
  <2>2. CASE \E s \in selected : SameKeys(r, s)
    BY <2>1, <2>2 DEF AsRecord
  <2>3. CASE ~ \E s \in selected : SameKeys(r, s)
    <3>1. r \notin selected
      BY <2>3 DEF SameKeys
    <3> QED
      BY <2>3, <3>1
  <2> QED
    BY <2>2, <2>3
<1> HIDE DEF Image
<1>3. Validate({Image(r) : r \in reg})
  <2>1. SUFFICES ASSUME NEW r \in reg, NEW s \in reg, Image(r) # Image(s)
                 PROVE  /\ ~SharesKey(Image(r), Image(s))
                        /\ Image(r).status # "Revoked" /\ Image(s).status # "Revoked"
                             => Image(r).id # Image(s).id
    BY DEF Validate
  <2>2. r # s
    BY <2>1
  <2> QED
    BY <1>2, <2>2 DEF Validate, SharesKey
<1> QED
  BY <1>1, <1>2, <1>3
=============================================================================
