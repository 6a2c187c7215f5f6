------------------------ MODULE X509LifecycleProofs ------------------------
(***************************************************************************)
(* Proofs about the X.509 commands of one host, for any number of runs and *)
(* keys, any lifetime and every fault.                                     *)
(***************************************************************************)
EXTENDS X509LifecycleProperties, TLAPS

(***************************************************************************)
(* What a run that holds the lock knows about the files: the key it had    *)
(* signed is still the enrolled one, and its candidate is for that key.    *)
(***************************************************************************)
Signing == \A r \in Run : At(r, "sign") \/ At(r, "validate") => run[r].key = EnrolledKey

Candidate == \A r \in Run :
  /\ At(r, "validate") => run[r].cand \in Cert /\ run[r].cand.key \in made
  /\ At(r, "moveKey") => run[r].cand \in Cert /\ run[r].cand.key \in made /\ run[r].cand.key = EnrolledKey
  /\ At(r, "moveCert") => /\ run[r].cand \in Cert /\ run[r].cand.key \in made
                          /\ run[r].cand.key = key /\ pending = None

PairInv == Signing /\ Candidate /\ PairPartedOnlyByACut

(***************************************************************************)
(* A staged key is new: no certificate, live or read earlier, is for it.   *)
(***************************************************************************)
StagedIsNew ==
  /\ key # None => key \in made
  /\ pending # None => pending \in made
  /\ cert # None => cert.key \in made /\ cert.key # pending
  /\ \A r \in Run : At(r, "readKey") /\ run[r].chain # None =>
       run[r].chain.key \in made /\ run[r].chain.key # pending

ReadPaired == \A r \in Run :
  At(r, "readKey") /\ run[r].chain # None /\ run[r].chain.key = key => Paired

VerdictInv == StagedIsNew /\ ReadPaired

(***************************************************************************)
(* Every printed request that is not tombstoned is for what the host holds.*)
(***************************************************************************)
Alive(q) == ~KeyRevoked(tombstones, q.key) /\ ~JwkRevoked(tombstones, q.jwk)

Held(q) == EnrolledKey = q.key /\ cred = q.jwk

Asked(r) == [key |-> run[r].key, jwk |-> run[r].jwk]

LedgersLag == hostLedger \subseteq tombstones /\ \A r \in Run : run[r].seen \subseteq tombstones

\* What an enrollment knows about the files at each of its steps.
PreparingOf(r) ==
  /\ run[r].at \in {"chooseJwk", "removeJwk", "removing", "placeJwk"} => run[r].key = EnrolledKey
  /\ At(r, "removeJwk") => JwkRevoked(tombstones, cred)
  /\ At(r, "removing") => cred = Partial
  /\ At(r, "placeJwk") => cred = None
  /\ At(r, "print") => (Alive(Asked(r)) => Held(Asked(r)))

Preparing == \A r \in Run : PreparingOf(r)

Requested == \A q \in requests : Alive(q) => Held(q)

PinnedAlive == pinned # None => pinned \in requests /\ Alive(pinned)

HeldInv == losses = 0 => LedgersLag /\ Preparing /\ Requested /\ PinnedAlive

(***************************************************************************)
(* What a run assessed under the lock stays true until it publishes.       *)
(***************************************************************************)
VouchedOf(r) ==
  /\ run[r].at \in {"issue", "sign", "validate"} =>
       run[r].t <= now /\ (run[r].usable => Usable(cert, key, run[r].t))
  /\ run[r].at \in {"moveKey", "moveCert"} => run[r].cand.whole /\ run[r].cand.end > run[r].t
  /\ run[r].at \in {"syncDir", "hook"} => Usable(cert, key, run[r].t)

Vouched == \A r \in Run : VouchedOf(r)

(***************************************************************************)
(* What the first assessment leaves behind: a certificate that was there   *)
(* stays there, replaced only by whole ones.                               *)
(***************************************************************************)
RememberedOf(r) ==
  /\ At(r, "readKey") /\ run[r].chain # None => cert # None
  /\ run[r].at \in {"waitLock", "tryLock", "reassess"} /\ run[r].usable => cert # None

Remembered == (cert # None => cert.whole) /\ \A r \in Run : RememberedOf(r)

\* A run that has ended is well typed.
LEMMA IdleTyped == ASSUME NEW ok \in BOOLEAN PROVE Idle(ok) \in RunRecord
  BY DEF Idle, RunRecord, Labels

\* A run that ends leaves the lock to nobody, or to the run that holds it.
LEMMA ExitTyped ==
  ASSUME TypeOK, NEW r \in Run, NEW ok \in BOOLEAN, Exit(r, ok)
  PROVE  run' \in [Run -> RunRecord] /\ holder' \in Run \union {None} /\ LockHeld' /\ KeysChosen'
<1>1. None \notin Run
  BY X509LifecycleAssumption DEF X509LifecycleAssumption
<1>2. run' \in [Run -> RunRecord]
  BY IdleTyped DEF TypeOK, Exit
<1>3. run'[r].at = "idle" /\ \A s \in Run \ {r} : run'[s] = run[s]
  BY DEF TypeOK, Exit, Idle
<1> QED
  BY <1>1, <1>2, <1>3 DEF TypeOK, Exit, LockHeld, KeysChosen, Locked, Enrolling, RenewLocked

\* A run that has chosen its JWK moves on, well typed.
LEMMA ChosenJwkTyped ==
  ASSUME TypeOK, NEW r \in Run, NEW j \in Jwk, NEW l \in Labels,
         run' = [run EXCEPT ![r].jwk = j, ![r].at = l]
  PROVE  /\ run' \in [Run -> RunRecord] /\ run'[r].at = l /\ run'[r].jwk = j /\ run'[r].key = run[r].key
         /\ \A s \in Run \ {r} : run'[s] = run[s]
<1>1. run' = [run EXCEPT ![r] = [run[r] EXCEPT !.jwk = j, !.at = l]]
  OBVIOUS
<1>2. run[r] \in RunRecord
  BY DEF TypeOK
<1>3. [run[r] EXCEPT !.jwk = j, !.at = l] \in RunRecord
  BY <1>2 DEF RunRecord
<1>4. /\ [run[r] EXCEPT !.jwk = j, !.at = l].at = l /\ [run[r] EXCEPT !.jwk = j, !.at = l].jwk = j
      /\ [run[r] EXCEPT !.jwk = j, !.at = l].key = run[r].key
  BY <1>2 DEF RunRecord
<1> QED
  BY <1>1, <1>3, <1>4 DEF TypeOK

\* Every step keeps the types.
LEMMA TypeNext == TypeOK /\ [Next]_vars => TypeOK'
<1> SUFFICES ASSUME TypeOK, [Next]_vars PROVE TypeOK'
  OBVIOUS
<1> USE X509LifecycleAssumption DEF X509LifecycleAssumption
<1>1. ASSUME NEW r \in Run, StartEnroll(r)
      PROVE  TypeOK'
  <2>1. [Idle(FALSE) EXCEPT !.op = "enroll", !.at = "waitLock", !.seen = hostLedger] \in RunRecord
    <3>1. Idle(FALSE) \in RunRecord
      BY IdleTyped
    <3> QED
      BY <3>1 DEF RunRecord, Labels, TypeOK
  <2>2. run' \in [Run -> RunRecord] /\ run'[r].at = "waitLock" /\ \A s \in Run \ {r} : run'[s] = run[s]
    BY <1>1, <2>1 DEF StartEnroll, TypeOK, Idle
  <2> QED
    BY <1>1, <2>2
       DEF StartEnroll, At, TypeOK, LockHeld, KeysChosen, Locked, Enrolling, RenewLocked,
           fileVars, runVars, caVars, histVars
<1>2. ASSUME NEW r \in Run, NEW op \in Ops, StartAssess(r, op)
      PROVE  TypeOK'
  <2>1. [Idle(FALSE) EXCEPT !.op = op, !.at = "readCert", !.t = now, !.pend = (pending # None)] \in RunRecord
    <3>1. Idle(FALSE) \in RunRecord /\ op \in {"renew", "cron", "status"}
      BY <1>2, IdleTyped DEF StartAssess, Renewals
    <3>2. "readCert" \in Labels /\ now \in Int
      BY DEF Labels, TypeOK
    <3> QED
      BY <3>1, <3>2 DEF RunRecord
  <2>2. run' \in [Run -> RunRecord] /\ run'[r].at = "readCert" /\ \A s \in Run \ {r} : run'[s] = run[s]
    BY <1>2, <2>1 DEF StartAssess, TypeOK, Idle
  <2> QED
    BY <1>2, <2>2
       DEF StartAssess, At, TypeOK, LockHeld, KeysChosen, Locked, Enrolling, RenewLocked,
           fileVars, runVars, caVars, histVars
<1>3. ASSUME NEW r \in Run, LockMaterial(r)
      PROVE  TypeOK'
  BY <1>3
     DEF LockMaterial, Go, At, LockHeld, KeysChosen, Locked, Enrolling, RenewLocked, Labels,
         RunRecord, TypeOK, fileVars, runVars, caVars, histVars
<1>4. ASSUME NEW r \in Run, LockTimesOut(r)
      PROVE  TypeOK'
  BY <1>4, ExitTyped DEF LockTimesOut, TypeOK, fileVars, caVars, histVars, Disowned, Pair
<1>5. ASSUME NEW r \in Run, ChooseKey(r)
      PROVE  TypeOK'
  <2>1. EnrolledKey \in Key \union {None}
    BY DEF EnrolledKey, TypeOK
  <2>2. PICK k \in Key : /\ run' = [run EXCEPT ![r].key = k, ![r].at = "chooseJwk"]
                        /\ key' \in {key, k} /\ pending' \in {pending, k} /\ made' \in {made, made \union {k}}
    <3>1. CASE EnrolledKey # None /\ ~KeyRevoked(run[r].seen, EnrolledKey)
      BY <1>5, <2>1, <3>1 DEF ChooseKey
    <3>2. CASE EnrolledKey # None => KeyRevoked(run[r].seen, EnrolledKey)
      BY <1>5, <2>1, <3>2 DEF ChooseKey
    <3> QED
      BY <3>1, <3>2
  <2>3. run' \in [Run -> RunRecord] /\ run'[r].at = "chooseJwk" /\ run'[r].key = k
        /\ \A s \in Run \ {r} : run'[s] = run[s]
    <3>1. run' = [run EXCEPT ![r] = [run[r] EXCEPT !.key = k, !.at = "chooseJwk"]]
      BY <2>2
    <3>2. run[r] \in RunRecord /\ "chooseJwk" \in Labels
      BY DEF TypeOK, Labels, Locked, Enrolling
    <3>3. [run[r] EXCEPT !.key = k, !.at = "chooseJwk"] \in RunRecord
      BY <3>2 DEF RunRecord
    <3>4. /\ [run[r] EXCEPT !.key = k, !.at = "chooseJwk"].at = "chooseJwk"
          /\ [run[r] EXCEPT !.key = k, !.at = "chooseJwk"].key = k
      BY <3>2 DEF RunRecord
    <3> QED
      BY <3>1, <3>3, <3>4 DEF TypeOK
  <2>4. UNCHANGED <<cert, cred, holder, hostLedger, caVars, requests, now, histVars, losses>> /\ At(r, "chooseKey")
    BY <1>5 DEF ChooseKey
  <2> QED
    BY <2>2, <2>3, <2>4
       DEF At, TypeOK, LockHeld, KeysChosen, Locked, Enrolling, RenewLocked, caVars, histVars
<1>6. ASSUME NEW r \in Run, ChooseJwk(r)
      PROVE  TypeOK'
  <2>1. /\ At(r, "chooseJwk")
        /\ UNCHANGED <<fileVars, hostLedger, caVars, requests, now, histVars, losses>>
    BY <1>6 DEF ChooseJwk
  <2>2. CASE cred \in Jwk /\ Prepared(r, cred) /\ UNCHANGED made
    <3>1. /\ run' \in [Run -> RunRecord] /\ run'[r].at = "print" /\ run'[r].jwk = cred /\ run'[r].key = run[r].key
          /\ \A s \in Run \ {r} : run'[s] = run[s]
      BY <2>2, ChosenJwkTyped DEF Prepared, Labels
    <3> QED
      BY <2>1, <2>2, <3>1
         DEF Prepared, At, TypeOK, LockHeld, KeysChosen, Locked, Enrolling, RenewLocked,
             fileVars, caVars, histVars
  <2>3. ASSUME NEW j \in Jwk, made' = made \union {j}, UNCHANGED holder,
               run' = [run EXCEPT ![r].jwk = j, ![r].at = IF cred = None THEN "placeJwk" ELSE "removeJwk"]
        PROVE  TypeOK'
    <3>1. /\ run' \in [Run -> RunRecord] /\ run'[r].at \in {"placeJwk", "removeJwk"}
          /\ run'[r].jwk = j /\ run'[r].key = run[r].key
          /\ \A s \in Run \ {r} : run'[s] = run[s]
      <4> DEFINE rec == [run[r] EXCEPT !.jwk = j, !.at = IF cred = None THEN "placeJwk" ELSE "removeJwk"]
      <4>1. run' = [run EXCEPT ![r] = rec]
        BY <2>3
      <4>2. run[r] \in RunRecord /\ "placeJwk" \in Labels /\ "removeJwk" \in Labels
        BY DEF TypeOK, Labels, Locked, Enrolling
      <4>3. rec \in RunRecord
        BY <4>2 DEF RunRecord
      <4>4. rec.at \in {"placeJwk", "removeJwk"} /\ rec.jwk = j /\ rec.key = run[r].key
        BY <4>2 DEF RunRecord
      <4> HIDE DEF rec
      <4> QED
        BY <4>1, <4>3, <4>4 DEF TypeOK
    <3> QED
      BY <2>1, <2>3, <3>1
         DEF At, TypeOK, LockHeld, KeysChosen, Locked, Enrolling, RenewLocked, fileVars, caVars,
             histVars
  <2>4. CASE Exit(r, FALSE) /\ UNCHANGED made
    BY <2>1, <2>4, ExitTyped DEF TypeOK, fileVars, caVars, histVars
  <2> QED
    BY <1>6, <2>2, <2>3, <2>4 DEF ChooseJwk
<1>7. ASSUME NEW r \in Run, RemoveJwk(r)
      PROVE  TypeOK'
  BY <1>7
     DEF RemoveJwk, Go, At, LockHeld, KeysChosen, Locked, Enrolling, RenewLocked, Labels,
         RunRecord, TypeOK, fileVars, runVars, caVars, histVars
<1>8. ASSUME NEW r \in Run, PlaceJwk(r)
      PROVE  TypeOK'
  BY <1>8
     DEF PlaceJwk, Prepared, At, LockHeld, KeysChosen, Locked, Enrolling, RenewLocked,
         Labels, RunRecord, TypeOK, fileVars, runVars, caVars, histVars
<1>9. ASSUME NEW r \in Run, PrintRequest(r)
      PROVE  TypeOK'
  <2>1. [key |-> run[r].key, jwk |-> run[r].jwk] \in Pair
    BY <1>9 DEF PrintRequest, At, TypeOK, KeysChosen, Pair
  <2> QED
    BY <1>9, <2>1, ExitTyped DEF PrintRequest, TypeOK, fileVars, caVars, histVars
<1>10. ASSUME NEW r \in Run, EnrollFails(r)
      PROVE  TypeOK'
  BY <1>10, ExitTyped DEF EnrollFails, TypeOK, fileVars, caVars, histVars, Disowned, Pair
<1>11. ASSUME NEW r \in Run, ReadCert(r)
      PROVE  TypeOK'
  BY <1>11
     DEF ReadCert, At, LockHeld, KeysChosen, Locked, Enrolling, RenewLocked, Labels,
         RunRecord, TypeOK, fileVars, runVars, caVars, histVars
<1>12. ASSUME NEW r \in Run, ReadKey(r)
      PROVE  TypeOK'
  <2>1. At(r, "readKey") /\ UNCHANGED <<fileVars, hostLedger, caVars, requests, made, now, histVars, losses>>
    BY <1>12 DEF ReadKey
  <2>2. ASSUME NEW ok \in BOOLEAN, Exit(r, ok) PROVE TypeOK'
    BY <2>1, <2>2, ExitTyped DEF TypeOK, fileVars, caVars, histVars
  <2>3. ASSUME UNCHANGED holder, NEW usable \in BOOLEAN,
               run' = [run EXCEPT ![r] = [Idle(FALSE) EXCEPT !.op = run[r].op, !.at = "tryLock",
                                                             !.usable = usable]]
        PROVE  TypeOK'
    <3>1. run' \in [Run -> RunRecord] /\ run'[r].at = "tryLock" /\ \A s \in Run \ {r} : run'[s] = run[s]
      <4>1. Idle(FALSE) \in RunRecord /\ run[r].op \in {"none", "enroll", "renew", "cron", "status"}
        BY IdleTyped DEF TypeOK, RunRecord
      <4>2. [Idle(FALSE) EXCEPT !.op = run[r].op, !.at = "tryLock", !.usable = usable] \in RunRecord
        BY <4>1 DEF RunRecord, Labels
      <4>3. [Idle(FALSE) EXCEPT !.op = run[r].op, !.at = "tryLock", !.usable = usable].at = "tryLock"
        BY DEF Idle
      <4> QED
        BY <2>3, <4>2, <4>3 DEF TypeOK
    <3> QED
      BY <2>1, <2>3, <3>1
         DEF At, TypeOK, LockHeld, KeysChosen, Locked, Enrolling, RenewLocked, fileVars, caVars,
             histVars
  <2>4. Verdict(r) \in BOOLEAN /\ (Verdict(r) /\ ~AlertDue(run[r].chain.end, run[r].t)) \in BOOLEAN
    BY DEF Verdict, Usable
  <2> QED
    BY <1>12, <2>2, <2>3, <2>4 DEF ReadKey
<1>13. ASSUME NEW r \in Run, AssessFails(r)
      PROVE  TypeOK'
  BY <1>13, ExitTyped DEF AssessFails, Fail, TypeOK, fileVars, caVars, histVars, Disowned, Tolerated
<1>14. ASSUME NEW r \in Run, TryLock(r)
      PROVE  TypeOK'
  <2>1. At(r, "tryLock") /\ UNCHANGED <<fileVars, hostLedger, caVars, requests, made, now, histVars, losses>>
    BY <1>14 DEF TryLock
  <2>2. CASE Exit(r, TRUE)
    BY <2>1, <2>2, ExitTyped DEF TypeOK, fileVars, caVars, histVars
  <2>3. CASE holder = None /\ holder' = r /\ Go(r, "reassess")
    <3>1. run' \in [Run -> RunRecord] /\ run'[r].at = "reassess" /\ \A s \in Run \ {r} : run'[s] = run[s]
      BY <2>3
         DEF Go, TypeOK, RunRecord, Labels, LockHeld, KeysChosen, Locked, Enrolling, RenewLocked
    <3> QED
      BY <2>1, <2>3, <3>1
         DEF At, TypeOK, LockHeld, KeysChosen, Locked, Enrolling, RenewLocked, fileVars, caVars,
             histVars
  <2>4. CASE Go(r, "waitLock") /\ UNCHANGED holder
    <3>1. run' \in [Run -> RunRecord] /\ run'[r].at = "waitLock" /\ \A s \in Run \ {r} : run'[s] = run[s]
      BY <2>4 DEF Go, TypeOK, RunRecord, Labels
    <3> QED
      BY <2>1, <2>4, <3>1
         DEF At, TypeOK, LockHeld, KeysChosen, Locked, Enrolling, RenewLocked, fileVars, caVars,
             histVars
  <2> QED
    BY <1>14, <2>2, <2>3, <2>4 DEF TryLock
<1>15. ASSUME NEW r \in Run, Reassess(r)
      PROVE  TypeOK'
  <2>1. At(r, "reassess") /\ UNCHANGED <<fileVars, hostLedger, caVars, requests, made, now, histVars, losses>>
    BY <1>15 DEF Reassess
  <2>2. CASE Exit(r, TRUE)
    BY <2>1, <2>2, ExitTyped DEF TypeOK, fileVars, caVars, histVars
  <2>3. ASSUME UNCHANGED holder, NEW usable \in BOOLEAN,
               run' = [run EXCEPT ![r].usable = usable, ![r].t = now, ![r].at = "issue"]
        PROVE  TypeOK'
    <3>1. run' \in [Run -> RunRecord] /\ run'[r].at = "issue" /\ \A s \in Run \ {r} : run'[s] = run[s]
      <4>1. run' = [run EXCEPT ![r] = [run[r] EXCEPT !.usable = usable, !.t = now, !.at = "issue"]]
        BY <2>3
      <4>2. run[r] \in RunRecord /\ "issue" \in Labels /\ now \in Int
        BY DEF TypeOK, Labels, Locked, RenewLocked
      <4>3. [run[r] EXCEPT !.usable = usable, !.t = now, !.at = "issue"] \in RunRecord
        BY <4>2 DEF RunRecord
      <4>4. [run[r] EXCEPT !.usable = usable, !.t = now, !.at = "issue"].at = "issue"
        BY <4>2 DEF RunRecord
      <4> QED
        BY <4>1, <4>3, <4>4 DEF TypeOK
    <3> QED
      BY <2>1, <2>3, <3>1
         DEF At, TypeOK, LockHeld, KeysChosen, Locked, Enrolling, RenewLocked, fileVars, caVars,
             histVars
  <2>4. Usable(cert, key, now) \in BOOLEAN
    BY DEF Usable
  <2> QED
    BY <1>15, <2>2, <2>3, <2>4 DEF Reassess
<1>16. ASSUME NEW r \in Run, ReassessFails(r)
      PROVE  TypeOK'
  BY <1>16, ExitTyped
     DEF ReassessFails, Fail, TypeOK, fileVars, caVars, histVars, Disowned, Tolerated
<1>17. ASSUME NEW r \in Run, ProbeFails(r)
      PROVE  TypeOK'
  BY <1>17, ExitTyped DEF ProbeFails, Fail, TypeOK, fileVars, caVars, histVars, Disowned, Tolerated
<1>18. ASSUME NEW r \in Run, CreateCsr(r)
      PROVE  TypeOK'
  BY <1>18
     DEF CreateCsr, At, LockHeld, KeysChosen, Locked, Enrolling, RenewLocked, Labels,
         RunRecord, TypeOK, fileVars, runVars, caVars, histVars
<1>19. ASSUME NEW r \in Run, IssueFails(r)
      PROVE  TypeOK'
  BY <1>19, ExitTyped DEF IssueFails, Fail, TypeOK, fileVars, caVars, histVars, Disowned, Tolerated
<1>20. ASSUME NEW r \in Run, Sign(r)
      PROVE  TypeOK'
  BY <1>20
     DEF Sign, Candidates, At, LockHeld, KeysChosen, Locked, Enrolling, RenewLocked, Labels,
         RunRecord, TypeOK, fileVars, runVars, caVars, histVars, Cert
<1>21. ASSUME NEW r \in Run, SignFails(r)
      PROVE  TypeOK'
  BY <1>21, ExitTyped DEF SignFails, Fail, TypeOK, fileVars, caVars, histVars, Disowned, Tolerated
<1>22. ASSUME NEW r \in Run, Validate(r)
      PROVE  TypeOK'
  BY <1>22
     DEF Validate, Go, At, LockHeld, KeysChosen, Locked, Enrolling, RenewLocked, Labels,
         RunRecord, TypeOK, fileVars, runVars, caVars, histVars
<1>23. ASSUME NEW r \in Run, ValidateFails(r)
      PROVE  TypeOK'
  BY <1>23, ExitTyped
     DEF ValidateFails, Fail, TypeOK, fileVars, caVars, histVars, Disowned, Tolerated
<1>24. ASSUME NEW r \in Run, Publish(r)
      PROVE  TypeOK'
  <2>1. UNCHANGED <<cred, holder, hostLedger, caVars, requests, made, now, losses>>
        /\ run[r].at \in {"moveKey", "moveCert", "syncDir"}
    BY <1>24 DEF Publish, At
  <2>2. PICK l \in {"moveCert", "syncDir", "hook"} : Go(r, l)
    BY <1>24 DEF Publish
  <2>3. run' \in [Run -> RunRecord] /\ run'[r].at \in {"moveCert", "syncDir", "hook"}
        /\ \A s \in Run \ {r} : run'[s] = run[s]
    BY <2>2 DEF Go, TypeOK, RunRecord, Labels, LockHeld, KeysChosen, Locked, Enrolling, RenewLocked
  <2>4. key' \in Key \union {None} /\ pending' \in Key \union {None} /\ cert' \in Cert \union {None}
    BY <1>24 DEF Publish, TypeOK, RunRecord
  <2>5. service' \in {"current", "owed", "told"} /\ torn' \in BOOLEAN
    BY <1>24 DEF Publish, TypeOK, histVars
  <2> QED
    BY <2>1, <2>3, <2>4, <2>5
       DEF TypeOK, LockHeld, KeysChosen, Locked, Enrolling, RenewLocked, caVars
<1>25. ASSUME NEW r \in Run, PublishFails(r)
      PROVE  TypeOK'
  BY <1>25, ExitTyped
     DEF PublishFails, Fail, TypeOK, fileVars, caVars, histVars, Disowned, Tolerated
<1>26. ASSUME NEW r \in Run, RunAfterRenew(r)
      PROVE  TypeOK'
  BY <1>26, ExitTyped DEF RunAfterRenew, TypeOK, fileVars, caVars, histVars, Disowned, Pair
<1>27. ASSUME NEW r \in Run, AfterRenewFails(r)
      PROVE  TypeOK'
  BY <1>27, ExitTyped
     DEF AfterRenewFails, Fail, TypeOK, fileVars, caVars, histVars, Disowned, Tolerated
<1>28. ASSUME NEW r \in Run, Kill(r)
      PROVE  TypeOK'
  BY <1>28, ExitTyped DEF Kill, TypeOK, fileVars, caVars, histVars, Disowned, Pair
<1>29. ASSUME NEW q \in requests, Approve(q)
      PROVE  TypeOK'
  BY <1>29
     DEF Approve, At, LockHeld, KeysChosen, Locked, Enrolling, RenewLocked, Labels,
         RunRecord, TypeOK, fileVars, runVars, caVars, histVars
<1>30. ASSUME Revoke
      PROVE  TypeOK'
  BY <1>30
     DEF Revoke, At, LockHeld, KeysChosen, Locked, Enrolling, RenewLocked, Labels,
         RunRecord, TypeOK, fileVars, runVars, caVars, histVars
<1>31. ASSUME DistributePolicy
      PROVE  TypeOK'
  BY <1>31
     DEF DistributePolicy, At, LockHeld, KeysChosen, Locked, Enrolling, RenewLocked, Labels,
         RunRecord, TypeOK, fileVars, runVars, caVars, histVars
<1>32. ASSUME Tick
      PROVE  TypeOK'
  BY <1>32
     DEF Tick, At, LockHeld, KeysChosen, Locked, Enrolling, RenewLocked, Labels, RunRecord,
         TypeOK, fileVars, runVars, caVars, histVars
<1>33. ASSUME LoseCredential
      PROVE  TypeOK'
  BY <1>33
     DEF LoseCredential, At, LockHeld, KeysChosen, Locked, Enrolling, RenewLocked, Labels,
         RunRecord, TypeOK, fileVars, runVars, caVars, histVars
<1>34. ASSUME UNCHANGED vars
      PROVE  TypeOK'
  BY <1>34
     DEF vars, At, LockHeld, KeysChosen, Locked, Enrolling, RenewLocked, Labels, RunRecord,
         TypeOK, fileVars, runVars, caVars, histVars
<1> QED
  BY <1>1, <1>2, <1>3, <1>4, <1>5, <1>6, <1>7, <1>8, <1>9, <1>10, <1>11, <1>12, <1>13, <1>14,
     <1>15, <1>16, <1>17, <1>18, <1>19, <1>20, <1>21, <1>22, <1>23, <1>24, <1>25, <1>26, <1>27,
     <1>28, <1>29, <1>30, <1>31, <1>32, <1>33, <1>34
     DEF Next, Environment, RunStep, EnrollStep, LockStep, AssessStep, RenewStep
-----------------------------------------------------------------------------
(***************************************************************************)
(* What a step does to the run that takes it; it leaves the others alone.  *)
(***************************************************************************)
Others(r) == \A s \in Run \ {r} : run'[s] = run[s]

\* A run that ends forgets what it read.
LEMMA Ends ==
  ASSUME TypeOK, NEW r \in Run, NEW ok, Exit(r, ok)
  PROVE  run'[r].at = "idle" /\ run'[r].seen = {} /\ run'[r].ok = ok /\ Others(r)
  BY DEF TypeOK, Exit, Idle, Others

\* A run that goes on keeps what it knows.
LEMMA Goes ==
  ASSUME TypeOK, NEW r \in Run, NEW l, run' = [run EXCEPT ![r].at = l]
  PROVE  /\ run'[r].at = l
         /\ run'[r].op = run[r].op /\ run'[r].ok = run[r].ok /\ run'[r].seen = run[r].seen
         /\ run'[r].t = run[r].t /\ run'[r].pend = run[r].pend /\ run'[r].chain = run[r].chain
         /\ run'[r].usable = run[r].usable /\ run'[r].key = run[r].key /\ run'[r].jwk = run[r].jwk
         /\ run'[r].cand = run[r].cand
         /\ Others(r)
<1> DEFINE rec == [run[r] EXCEPT !.at = l]
<1>1. run' = [run EXCEPT ![r] = rec]
  OBVIOUS
<1>2. run[r] \in RunRecord
  BY DEF TypeOK
<1>3. /\ rec.at = l
      /\ rec.op = run[r].op /\ rec.ok = run[r].ok /\ rec.seen = run[r].seen
      /\ rec.t = run[r].t /\ rec.pend = run[r].pend /\ rec.chain = run[r].chain
      /\ rec.usable = run[r].usable /\ rec.key = run[r].key /\ rec.jwk = run[r].jwk
      /\ rec.cand = run[r].cand
  BY <1>2 DEF RunRecord
<1> HIDE DEF rec
<1> QED
  BY <1>1, <1>3 DEF TypeOK, Others

\* An enrollment that has its key.
LEMMA ChoosesKey ==
  ASSUME TypeOK, NEW r \in Run, NEW k, run' = [run EXCEPT ![r].key = k, ![r].at = "chooseJwk"]
  PROVE  /\ run'[r].key = k /\ run'[r].at = "chooseJwk"
         /\ run'[r].op = run[r].op /\ run'[r].ok = run[r].ok /\ run'[r].seen = run[r].seen
         /\ run'[r].t = run[r].t /\ run'[r].pend = run[r].pend /\ run'[r].chain = run[r].chain
         /\ run'[r].usable = run[r].usable /\ run'[r].jwk = run[r].jwk /\ run'[r].cand = run[r].cand
         /\ Others(r)
<1> DEFINE rec == [run[r] EXCEPT !.key = k, !.at = "chooseJwk"]
<1>1. run' = [run EXCEPT ![r] = rec]
  OBVIOUS
<1>2. run[r] \in RunRecord
  BY DEF TypeOK
<1>3. /\ rec.key = k /\ rec.at = "chooseJwk"
      /\ rec.op = run[r].op /\ rec.ok = run[r].ok /\ rec.seen = run[r].seen
      /\ rec.t = run[r].t /\ rec.pend = run[r].pend /\ rec.chain = run[r].chain
      /\ rec.usable = run[r].usable /\ rec.jwk = run[r].jwk /\ rec.cand = run[r].cand
  BY <1>2 DEF RunRecord
<1> HIDE DEF rec
<1> QED
  BY <1>1, <1>3 DEF TypeOK, Others

\* An enrollment that has its JWK.
JwkChosen(r, j, l) == run' = [run EXCEPT ![r].jwk = j, ![r].at = l]

LEMMA ChoosesJwk ==
  ASSUME TypeOK, NEW r \in Run, NEW j, NEW l, JwkChosen(r, j, l)
  PROVE  /\ run'[r].jwk = j /\ run'[r].at = l
         /\ run'[r].op = run[r].op /\ run'[r].ok = run[r].ok /\ run'[r].seen = run[r].seen
         /\ run'[r].t = run[r].t /\ run'[r].pend = run[r].pend /\ run'[r].chain = run[r].chain
         /\ run'[r].usable = run[r].usable /\ run'[r].key = run[r].key /\ run'[r].cand = run[r].cand
         /\ Others(r)
<1> DEFINE rec == [run[r] EXCEPT !.jwk = j, !.at = l]
<1>1. run' = [run EXCEPT ![r] = rec]
  BY DEF JwkChosen
<1>2. run[r] \in RunRecord
  BY DEF TypeOK
<1>3. /\ rec.jwk = j /\ rec.at = l
      /\ rec.op = run[r].op /\ rec.ok = run[r].ok /\ rec.seen = run[r].seen
      /\ rec.t = run[r].t /\ rec.pend = run[r].pend /\ rec.chain = run[r].chain
      /\ rec.usable = run[r].usable /\ rec.key = run[r].key /\ rec.cand = run[r].cand
  BY <1>2 DEF RunRecord
<1> HIDE DEF rec
<1> QED
  BY <1>1, <1>3 DEF TypeOK, Others

\* A run that has read cert.pem.
LEMMA Reads ==
  ASSUME TypeOK, NEW r \in Run, run' = [run EXCEPT ![r].chain = cert, ![r].at = "readKey"]
  PROVE  /\ run'[r].chain = cert /\ run'[r].at = "readKey"
         /\ run'[r].op = run[r].op /\ run'[r].ok = run[r].ok /\ run'[r].seen = run[r].seen
         /\ run'[r].t = run[r].t /\ run'[r].pend = run[r].pend /\ run'[r].usable = run[r].usable
         /\ run'[r].key = run[r].key /\ run'[r].jwk = run[r].jwk /\ run'[r].cand = run[r].cand
         /\ Others(r)
<1> DEFINE rec == [run[r] EXCEPT !.chain = cert, !.at = "readKey"]
<1>1. run' = [run EXCEPT ![r] = rec]
  OBVIOUS
<1>2. run[r] \in RunRecord
  BY DEF TypeOK
<1>3. /\ rec.chain = cert /\ rec.at = "readKey"
      /\ rec.op = run[r].op /\ rec.ok = run[r].ok /\ rec.seen = run[r].seen
      /\ rec.t = run[r].t /\ rec.pend = run[r].pend /\ rec.usable = run[r].usable
      /\ rec.key = run[r].key /\ rec.jwk = run[r].jwk /\ rec.cand = run[r].cand
  BY <1>2 DEF RunRecord
<1> HIDE DEF rec
<1> QED
  BY <1>1, <1>3 DEF TypeOK, Others

\* A run that has assessed the files under the lock.
LEMMA Assesses ==
  ASSUME TypeOK, NEW r \in Run, NEW usable, run' = [run EXCEPT ![r].usable = usable, ![r].t = now, ![r].at = "issue"]
  PROVE  /\ run'[r].usable = usable /\ run'[r].t = now /\ run'[r].at = "issue"
         /\ run'[r].op = run[r].op /\ run'[r].ok = run[r].ok /\ run'[r].seen = run[r].seen
         /\ run'[r].pend = run[r].pend /\ run'[r].chain = run[r].chain /\ run'[r].key = run[r].key
         /\ run'[r].jwk = run[r].jwk /\ run'[r].cand = run[r].cand
         /\ Others(r)
<1> DEFINE rec == [run[r] EXCEPT !.usable = usable, !.t = now, !.at = "issue"]
<1>1. run' = [run EXCEPT ![r] = rec]
  OBVIOUS
<1>2. run[r] \in RunRecord
  BY DEF TypeOK
<1>3. /\ rec.usable = usable /\ rec.t = now /\ rec.at = "issue"
      /\ rec.op = run[r].op /\ rec.ok = run[r].ok /\ rec.seen = run[r].seen
      /\ rec.pend = run[r].pend /\ rec.chain = run[r].chain /\ rec.key = run[r].key
      /\ rec.jwk = run[r].jwk /\ rec.cand = run[r].cand
  BY <1>2 DEF RunRecord
<1> HIDE DEF rec
<1> QED
  BY <1>1, <1>3 DEF TypeOK, Others

\* A run that has its signing request.
LEMMA Asks ==
  ASSUME TypeOK, NEW r \in Run, run' = [run EXCEPT ![r].key = EnrolledKey, ![r].at = "sign"]
  PROVE  /\ run'[r].key = EnrolledKey /\ run'[r].at = "sign"
         /\ run'[r].op = run[r].op /\ run'[r].ok = run[r].ok /\ run'[r].seen = run[r].seen
         /\ run'[r].t = run[r].t /\ run'[r].pend = run[r].pend /\ run'[r].chain = run[r].chain
         /\ run'[r].usable = run[r].usable /\ run'[r].jwk = run[r].jwk /\ run'[r].cand = run[r].cand
         /\ Others(r)
<1> DEFINE rec == [run[r] EXCEPT !.key = EnrolledKey, !.at = "sign"]
<1>1. run' = [run EXCEPT ![r] = rec]
  OBVIOUS
<1>2. run[r] \in RunRecord
  BY DEF TypeOK
<1>3. /\ rec.key = EnrolledKey /\ rec.at = "sign"
      /\ rec.op = run[r].op /\ rec.ok = run[r].ok /\ rec.seen = run[r].seen
      /\ rec.t = run[r].t /\ rec.pend = run[r].pend /\ rec.chain = run[r].chain
      /\ rec.usable = run[r].usable /\ rec.jwk = run[r].jwk /\ rec.cand = run[r].cand
  BY <1>2 DEF RunRecord
<1> HIDE DEF rec
<1> QED
  BY <1>1, <1>3 DEF TypeOK, Others

\* A run that has its candidate.
LEMMA Receives ==
  ASSUME TypeOK, NEW r \in Run, NEW c, run' = [run EXCEPT ![r].cand = c, ![r].at = "validate"]
  PROVE  /\ run'[r].cand = c /\ run'[r].at = "validate"
         /\ run'[r].op = run[r].op /\ run'[r].ok = run[r].ok /\ run'[r].seen = run[r].seen
         /\ run'[r].t = run[r].t /\ run'[r].pend = run[r].pend /\ run'[r].chain = run[r].chain
         /\ run'[r].usable = run[r].usable /\ run'[r].key = run[r].key /\ run'[r].jwk = run[r].jwk
         /\ Others(r)
<1> DEFINE rec == [run[r] EXCEPT !.cand = c, !.at = "validate"]
<1>1. run' = [run EXCEPT ![r] = rec]
  OBVIOUS
<1>2. run[r] \in RunRecord
  BY DEF TypeOK
<1>3. /\ rec.cand = c /\ rec.at = "validate"
      /\ rec.op = run[r].op /\ rec.ok = run[r].ok /\ rec.seen = run[r].seen
      /\ rec.t = run[r].t /\ rec.pend = run[r].pend /\ rec.chain = run[r].chain
      /\ rec.usable = run[r].usable /\ rec.key = run[r].key /\ rec.jwk = run[r].jwk
  BY <1>2 DEF RunRecord
<1> HIDE DEF rec
<1> QED
  BY <1>1, <1>3 DEF TypeOK, Others

\* A run that starts has read only what it starts with.
LEMMA Starts ==
  ASSUME TypeOK, NEW r \in Run, StartEnroll(r) \/ \E op \in Ops : StartAssess(r, op)
  PROVE  /\ run'[r].at \in {"waitLock", "readCert"} /\ run'[r].seen \in {{}, hostLedger}
         /\ Others(r)
<1>1. CASE StartEnroll(r)
  BY <1>1 DEF StartEnroll, Idle, TypeOK, Others
<1>2. ASSUME NEW op \in Ops, StartAssess(r, op)
      PROVE  run'[r].at = "readCert" /\ run'[r].seen = {} /\ Others(r)
  BY <1>2 DEF StartAssess, Idle, TypeOK, Others
<1> QED
  BY <1>1, <1>2

\* A run that needs a renewal remembers whether it found the certificate usable.
LEMMA Needs ==
  ASSUME TypeOK, NEW r \in Run, NEW usable,
         run' = [run EXCEPT ![r] = [Idle(FALSE) EXCEPT !.op = run[r].op, !.at = "tryLock", !.usable = usable]]
  PROVE  /\ run'[r].at = "tryLock" /\ run'[r].seen = {} /\ run'[r].usable = usable
         /\ Others(r)
  BY DEF Idle, TypeOK, Others

\* At most one run is past the lock.
LEMMA OneLocked ==
  ASSUME TypeOK, NEW r \in Run, NEW s \in Run, run[r].at \in Locked, run[s].at \in Locked
  PROVE  r = s
  BY DEF TypeOK, LockHeld
-----------------------------------------------------------------------------
(***************************************************************************)
(* Most steps leave the pair alone, and their run away from publishing.    *)
(***************************************************************************)
Quiet == {"idle", "waitLock", "chooseKey", "chooseJwk", "removeJwk", "removing", "placeJwk", "print",
          "readCert", "tryLock", "reassess", "issue"}

Quietly(r) ==
  /\ UNCHANGED <<key, pending, cert>> /\ made \subseteq made'
  /\ run'[r].at \in Quiet /\ Others(r)
  /\ torn => torn'
  /\ At(r, "moveCert") => torn'
  /\ now' = now
  /\ service' = "owed" => service = "owed" /\ ~At(r, "syncDir") /\ ~At(r, "hook")
  /\ run'[r].at = "issue" => Reassess(r)

QuietStep(r) ==
  \/ StartEnroll(r) \/ \E op \in Ops : StartAssess(r, op)
  \/ LockMaterial(r) \/ LockTimesOut(r)
  \/ ChooseJwk(r) \/ RemoveJwk(r) \/ PlaceJwk(r) \/ PrintRequest(r) \/ EnrollFails(r)
  \/ ReadKey(r) \/ AssessFails(r)
  \/ TryLock(r) \/ Reassess(r) \/ ReassessFails(r) \/ ProbeFails(r) \/ IssueFails(r)
  \/ SignFails(r) \/ ValidateFails(r) \/ PublishFails(r) \/ RunAfterRenew(r) \/ AfterRenewFails(r)
  \/ Kill(r)

\* Each of these steps does.
LEMMA QuietSteps == ASSUME TypeOK, NEW r \in Run, QuietStep(r) PROVE Quietly(r)
<1>1. ASSUME StartEnroll(r) \/ \E op \in Ops : StartAssess(r, op)
      PROVE  Quietly(r)
  <2>1. run[r].at \notin {"moveCert", "syncDir", "hook"} /\ UNCHANGED <<key, pending, cert, torn, made, now, service>>
    BY <1>1 DEF StartEnroll, StartAssess, At, fileVars, histVars
  <2>2. run'[r].at \in {"waitLock", "readCert"} /\ Others(r)
    BY <1>1, Starts DEF StartEnroll, StartAssess
  <2> QED
    BY <2>1, <2>2 DEF Quietly, Quiet, At
<1>2. ASSUME LockMaterial(r)
      PROVE  Quietly(r)
  <2>1. run[r].at \notin {"moveCert", "syncDir", "hook"} /\ UNCHANGED <<key, pending, cert, torn, made, now, service>>
    BY <1>2 DEF LockMaterial, At, fileVars, histVars
  <2>2. Go(r, "chooseKey") \/ Go(r, "reassess")
    BY <1>2 DEF LockMaterial
  <2>3. run'[r].at \in {"chooseKey", "reassess"} /\ Others(r)
    BY <2>2, Goes DEF Go
  <2> QED
    BY <2>1, <2>3 DEF Quietly, Quiet, At
<1>3. ASSUME LockTimesOut(r)
      PROVE  Quietly(r)
  BY <1>3, Ends DEF LockTimesOut, Quietly, Quiet, At, fileVars, histVars
<1>4. ASSUME ChooseJwk(r)
      PROVE  Quietly(r)
  <2>1. At(r, "chooseJwk") /\ UNCHANGED <<key, pending, cert, torn, now, service>> /\ made \subseteq made'
    BY <1>4 DEF ChooseJwk, fileVars, histVars
  <2>2. CASE Prepared(r, cred)
    <3>1. run'[r].at = "print" /\ Others(r)
      <4>1. JwkChosen(r, cred, "print")
        BY <2>2 DEF Prepared, JwkChosen
      <4> QED
        BY <4>1, ChoosesJwk
    <3> QED
      BY <2>1, <3>1 DEF Quietly, Quiet, At
  <2>3. CASE \E j \in Jwk : run' = [run EXCEPT ![r].jwk = j, ![r].at = IF cred = None THEN "placeJwk" ELSE "removeJwk"]
    <3>1. CASE cred = None
      <4>1. \E j \in Jwk : JwkChosen(r, j, "placeJwk")
        BY <2>3, <3>1 DEF JwkChosen
      <4> QED
        BY <4>1, <2>1, ChoosesJwk DEF Quietly, Quiet, At
    <3>2. CASE cred # None
      <4>1. \E j \in Jwk : JwkChosen(r, j, "removeJwk")
        BY <2>3, <3>2 DEF JwkChosen
      <4> QED
        BY <4>1, <2>1, ChoosesJwk DEF Quietly, Quiet, At
    <3> QED
      BY <3>1, <3>2
  <2>4. CASE Exit(r, FALSE)
    BY <2>1, <2>4, Ends DEF Quietly, Quiet, At
  <2> QED
    BY <1>4, <2>2, <2>3, <2>4 DEF ChooseJwk
<1>5. ASSUME RemoveJwk(r)
      PROVE  Quietly(r)
  <2>1. run[r].at \notin {"moveCert", "syncDir", "hook"} /\ UNCHANGED <<key, pending, cert, torn, made, now, service>>
    BY <1>5 DEF RemoveJwk, Go, At, fileVars, histVars
  <2>2. run'[r].at \in {"removing", "placeJwk"} /\ Others(r)
    BY <1>5, Goes DEF RemoveJwk, Go
  <2> QED
    BY <2>1, <2>2 DEF Quietly, Quiet, At
<1>6. ASSUME PlaceJwk(r)
      PROVE  Quietly(r)
  <2>1. run[r].at \notin {"moveCert", "syncDir", "hook"} /\ UNCHANGED <<key, pending, cert, torn, made, now, service>>
    BY <1>6 DEF PlaceJwk, Prepared, At, histVars
  <2>2. JwkChosen(r, run[r].jwk, "print")
    BY <1>6 DEF PlaceJwk, Prepared, JwkChosen
  <2>3. run'[r].at = "print" /\ Others(r)
    BY <2>2, ChoosesJwk
  <2> QED
    BY <2>1, <2>3 DEF Quietly, Quiet, At
<1>7. ASSUME PrintRequest(r)
      PROVE  Quietly(r)
  BY <1>7, Ends DEF PrintRequest, Quietly, Quiet, At, fileVars, histVars
<1>8. ASSUME EnrollFails(r)
      PROVE  Quietly(r)
  BY <1>8, Ends DEF EnrollFails, Quietly, Quiet, At, fileVars, histVars, Enrolling
<1>9. ASSUME ReadKey(r)
      PROVE  Quietly(r)
  <2>1. At(r, "readKey") /\ UNCHANGED <<key, pending, cert, torn, made, now, service>>
    BY <1>9 DEF ReadKey, fileVars, histVars
  <2>2. (\E ok : Exit(r, ok)) \/ \E usable :
          run' = [run EXCEPT ![r] = [Idle(FALSE) EXCEPT !.op = run[r].op, !.at = "tryLock", !.usable = usable]]
    BY <1>9 DEF ReadKey
  <2>3. run'[r].at \in {"idle", "tryLock"} /\ Others(r)
    BY <2>2, Ends, Needs
  <2> QED
    BY <2>1, <2>3 DEF Quietly, Quiet, At
<1>10. ASSUME AssessFails(r)
      PROVE  Quietly(r)
  <2>1. run[r].at \in {"readCert", "readKey"} /\ UNCHANGED <<key, pending, cert, torn, made, now>> /\ service' = service
    BY <1>10 DEF AssessFails, Fail, Disowned, At, fileVars
  <2>2. run'[r].at = "idle" /\ Others(r)
    BY <1>10, Ends DEF AssessFails, Fail
  <2> QED
    BY <2>1, <2>2 DEF Quietly, Quiet, At
<1>11. ASSUME TryLock(r)
      PROVE  Quietly(r)
  <2>1. At(r, "tryLock") /\ UNCHANGED <<key, pending, cert, torn, made, now, service>>
    BY <1>11 DEF TryLock, fileVars, histVars
  <2>2. Exit(r, TRUE) \/ Go(r, "reassess") \/ Go(r, "waitLock")
    BY <1>11 DEF TryLock
  <2>3. run'[r].at \in {"idle", "reassess", "waitLock"} /\ Others(r)
    BY <2>2, Ends, Goes DEF Go
  <2> QED
    BY <2>1, <2>3 DEF Quietly, Quiet, At
<1>12. ASSUME Reassess(r)
      PROVE  Quietly(r)
  <2>1. At(r, "reassess") /\ UNCHANGED <<key, pending, cert, torn, made, now, service>>
    BY <1>12 DEF Reassess, fileVars, histVars
  <2>2. Exit(r, TRUE) \/ \E usable : run' = [run EXCEPT ![r].usable = usable, ![r].t = now, ![r].at = "issue"]
    BY <1>12 DEF Reassess
  <2>3. ASSUME NEW usable, run' = [run EXCEPT ![r].usable = usable, ![r].t = now, ![r].at = "issue"]
        PROVE  run'[r].at = "issue" /\ Others(r)
    BY <2>3, Assesses
  <2>4. run'[r].at \in {"idle", "issue"} /\ Others(r)
    BY <2>2, <2>3, Ends
  <2> QED
    BY <1>12, <2>1, <2>4 DEF Quietly, Quiet, At
<1>13. ASSUME ReassessFails(r)
      PROVE  Quietly(r)
  <2>1. run[r].at \in {"tryLock", "reassess"} /\ UNCHANGED <<key, pending, cert, torn, made, now>> /\ service' = service
    BY <1>13 DEF ReassessFails, Fail, Disowned, At, fileVars
  <2>2. run'[r].at = "idle" /\ Others(r)
    BY <1>13, Ends DEF ReassessFails, Fail
  <2> QED
    BY <2>1, <2>2 DEF Quietly, Quiet, At
<1>14. ASSUME ProbeFails(r)
      PROVE  Quietly(r)
  <2>1. run[r].at = "issue" /\ UNCHANGED <<key, pending, cert, torn, made, now>> /\ service' = service
    BY <1>14 DEF ProbeFails, Fail, Disowned, At, fileVars
  <2>2. run'[r].at = "idle" /\ Others(r)
    BY <1>14, Ends DEF ProbeFails, Fail
  <2> QED
    BY <2>1, <2>2 DEF Quietly, Quiet, At
<1>15. ASSUME IssueFails(r)
      PROVE  Quietly(r)
  <2>1. run[r].at = "issue" /\ UNCHANGED <<key, pending, cert, torn, made, now>> /\ service' = service
    BY <1>15 DEF IssueFails, Fail, Disowned, At, fileVars
  <2>2. run'[r].at = "idle" /\ Others(r)
    BY <1>15, Ends DEF IssueFails, Fail
  <2> QED
    BY <2>1, <2>2 DEF Quietly, Quiet, At
<1>16. ASSUME SignFails(r)
      PROVE  Quietly(r)
  <2>1. run[r].at = "sign" /\ UNCHANGED <<key, pending, cert, torn, made, now>> /\ service' = service
    BY <1>16 DEF SignFails, Fail, Disowned, At, fileVars
  <2>2. run'[r].at = "idle" /\ Others(r)
    BY <1>16, Ends DEF SignFails, Fail
  <2> QED
    BY <2>1, <2>2 DEF Quietly, Quiet, At
<1>17. ASSUME ValidateFails(r)
      PROVE  Quietly(r)
  <2>1. run[r].at = "validate" /\ UNCHANGED <<key, pending, cert, torn, made, now>> /\ service' = service
    BY <1>17 DEF ValidateFails, Fail, Disowned, At, fileVars
  <2>2. run'[r].at = "idle" /\ Others(r)
    BY <1>17, Ends DEF ValidateFails, Fail
  <2> QED
    BY <2>1, <2>2 DEF Quietly, Quiet, At
<1>18. ASSUME PublishFails(r)
      PROVE  Quietly(r)
  BY <1>18, Ends DEF PublishFails, Fail, Disowned, Tolerated, Quietly, Quiet, At, fileVars, histVars
<1>19. ASSUME RunAfterRenew(r)
      PROVE  Quietly(r)
  <2>1. run[r].at = "hook" /\ UNCHANGED <<key, pending, cert, torn, made, now>> /\ service' = "current"
    BY <1>19 DEF RunAfterRenew, At, fileVars
  <2>2. run'[r].at = "idle" /\ Others(r)
    BY <1>19, Ends DEF RunAfterRenew
  <2> QED
    BY <2>1, <2>2 DEF Quietly, Quiet, At
<1>20. ASSUME AfterRenewFails(r)
      PROVE  Quietly(r)
  <2>1. run[r].at = "hook" /\ UNCHANGED <<key, pending, cert, torn, made, now>> /\ service' = "told"
    BY <1>20 DEF AfterRenewFails, Fail, Disowned, At, fileVars, Tolerated
  <2>2. run'[r].at = "idle" /\ Others(r)
    BY <1>20, Ends DEF AfterRenewFails, Fail
  <2> QED
    BY <2>1, <2>2 DEF Quietly, Quiet, At
<1>21. ASSUME Kill(r)
      PROVE  Quietly(r)
  BY <1>21, Ends DEF Kill, Disowned, Quietly, Quiet, At, fileVars, histVars
<1> QED
  BY <1>1, <1>2, <1>3, <1>4, <1>5, <1>6, <1>7, <1>8, <1>9, <1>10, <1>11, <1>12, <1>13, <1>14,
     <1>15, <1>16, <1>17, <1>18, <1>19, <1>20, <1>21
     DEF QuietStep

-----------------------------------------------------------------------------
(***************************************************************************)
(* The live pair.                                                          *)
(***************************************************************************)

\* A quiet step parts no pair.
LEMMA PairKept == ASSUME TypeOK, PairInv, NEW r \in Run, Quietly(r) PROVE PairInv'
<1>1. \A s \in Run : ~(run'[s].at \in Quiet) => s # r /\ run'[s] = run[s]
  BY DEF Others, Quietly
<1>2. Signing' /\ Candidate'
  BY <1>1 DEF PairInv, Signing, Candidate, EnrolledKey, At, Quiet, Quietly
<1>3. PairPartedOnlyByACut'
  BY <1>1 DEF PairInv, PairPartedOnlyByACut, At, Quiet, Others, Quietly
<1> QED
  BY <1>2, <1>3 DEF PairInv

\* The pair is parted only by a cut, after every step too.
LEMMA PairNext == TypeOK /\ PairInv /\ [Next]_vars => PairInv'
<1> SUFFICES ASSUME TypeOK, PairInv, [Next]_vars PROVE PairInv'
  OBVIOUS
<1>1. ASSUME NEW r \in Run, QuietStep(r)
      PROVE  PairInv'
  BY <1>1, QuietSteps, PairKept
<1>2. ASSUME NEW r \in Run, ReadCert(r)
      PROVE  PairInv'
  <2>1. UNCHANGED <<key, pending, cert, torn, made>> /\ At(r, "readCert")
    BY <1>2 DEF ReadCert, fileVars, histVars
  <2>2. run'[r].at = "readKey" /\ Others(r)
    BY <1>2, Reads DEF ReadCert
  <2> QED
    BY <2>1, <2>2 DEF PairInv, Signing, Candidate, PairPartedOnlyByACut, EnrolledKey, At, Others
<1>3. ASSUME NEW r \in Run, ChooseKey(r)
      PROVE  PairInv'
  <2>1. PICK k : run' = [run EXCEPT ![r].key = k, ![r].at = "chooseJwk"]
    BY <1>3 DEF ChooseKey
  <2>2. run'[r].at = "chooseJwk" /\ Others(r)
    BY <2>1, ChoosesKey
  <2>3. \A s \in Run \ {r} : run[s].at \notin Locked
    BY <1>3, OneLocked DEF ChooseKey, At, Locked, Enrolling
  <2>4. \A s \in Run : run'[s].at \notin {"sign", "validate", "moveKey", "moveCert"}
    BY <2>2, <2>3 DEF Others, Locked, RenewLocked
  <2>5. \A s \in Run : run[s].at # "moveCert"
    BY <1>3, <2>3 DEF ChooseKey, At, Locked, RenewLocked
  <2>6. PairPartedOnlyByACut'
    <3>1. UNCHANGED <<cert, torn>> /\ key' \in {key, IF key = None THEN key' ELSE key}
      BY <1>3 DEF ChooseKey, EnrolledKey, histVars
    <3>2. cert # None /\ cert.key # key' => cert.key # key
      BY <3>1, X509LifecycleAssumption DEF X509LifecycleAssumption, TypeOK, Cert
    <3> QED
      BY <2>5, <3>1, <3>2 DEF PairInv, PairPartedOnlyByACut, At
  <2> QED
    BY <2>4, <2>6 DEF PairInv, Signing, Candidate, At
<1>4. ASSUME NEW r \in Run, CreateCsr(r)
      PROVE  PairInv'
  <2>1. At(r, "issue") /\ UNCHANGED <<key, pending, cert, torn, made>>
    BY <1>4 DEF CreateCsr, fileVars, histVars
  <2>2. run'[r].key = EnrolledKey /\ run'[r].at = "sign" /\ Others(r)
    BY <1>4, Asks DEF CreateCsr
  <2> QED
    BY <2>1, <2>2 DEF PairInv, Signing, Candidate, PairPartedOnlyByACut, EnrolledKey, At, Others
<1>5. ASSUME NEW r \in Run, Sign(r)
      PROVE  PairInv'
  <2>1. At(r, "sign") /\ UNCHANGED <<key, pending, cert, torn, made>>
    BY <1>5 DEF Sign, fileVars, histVars
  <2>2. PICK c \in Candidates : run' = [run EXCEPT ![r].cand = c, ![r].at = "validate"]
    BY <1>5 DEF Sign
  <2>3. run'[r].cand = c /\ run'[r].at = "validate" /\ run'[r].key = run[r].key /\ Others(r)
    BY <2>2, Receives
  <2>4. c \in Cert /\ c.key \in made
    BY X509LifecycleAssumption DEF Candidates, Cert, TypeOK, X509LifecycleAssumption
  <2> QED
    BY <2>1, <2>3, <2>4
       DEF PairInv, Signing, Candidate, PairPartedOnlyByACut, EnrolledKey, At, Others
<1>6. ASSUME NEW r \in Run, Validate(r)
      PROVE  PairInv'
  <2>1. At(r, "validate") /\ UNCHANGED <<key, pending, cert, torn, made>> /\ run[r].cand.key = run[r].key
    BY <1>6 DEF Validate, Usable, fileVars, histVars
  <2>2. run'[r].at = "moveKey" /\ run'[r].cand = run[r].cand /\ run'[r].key = run[r].key /\ Others(r)
    BY <1>6, Goes DEF Validate, Go
  <2> QED
    BY <2>1, <2>2 DEF PairInv, Signing, Candidate, PairPartedOnlyByACut, EnrolledKey, At, Others
<1>7. ASSUME NEW r \in Run, Publish(r)
      PROVE  PairInv'
  <2>1. \A s \in Run \ {r} : run[s].at \notin Locked
    BY <1>7, OneLocked DEF Publish, At, Locked, RenewLocked
  <2>2. CASE At(r, "moveKey")
    <3>1. run'[r].at = "moveCert" /\ run'[r].cand = run[r].cand /\ Others(r)
      BY <1>7, <2>2, Goes DEF Publish, Go, At
    <3>2. UNCHANGED <<cert, torn, made>> /\ key' = EnrolledKey /\ pending' = None
      BY <1>7, <2>2 DEF Publish, At, EnrolledKey, histVars
    <3>3. run[r].cand \in Cert /\ run[r].cand.key \in made /\ run[r].cand.key = EnrolledKey
      BY <2>2 DEF PairInv, Candidate
    <3>4. \A s \in Run \ {r} : run'[s].at \notin Locked
      BY <2>1, <3>1 DEF Others
    <3>5. PairPartedOnlyByACut'
      BY <3>1 DEF PairPartedOnlyByACut, At
    <3> QED
      BY <3>1, <3>2, <3>3, <3>4, <3>5 DEF PairInv, Signing, Candidate, At, Locked, RenewLocked
  <2>3. CASE At(r, "moveCert")
    <3>1. run'[r].at = "syncDir" /\ Others(r)
      BY <1>7, <2>3, Goes DEF Publish, Go, At
    <3>2. cert' = run[r].cand /\ key' = key
      BY <1>7, <2>3 DEF Publish, At
    <3>3. run[r].cand.key = key
      BY <2>3 DEF PairInv, Candidate
    <3>4. \A s \in Run : run'[s].at \notin {"sign", "validate", "moveKey", "moveCert"}
      BY <2>1, <3>1 DEF Others, Locked, RenewLocked
    <3> QED
      BY <3>2, <3>3, <3>4 DEF PairInv, Signing, Candidate, PairPartedOnlyByACut, At
  <2>4. CASE At(r, "syncDir")
    <3>1. run'[r].at = "hook" /\ Others(r) /\ UNCHANGED <<key, pending, cert, torn, made>>
      BY <1>7, <2>4, Goes DEF Publish, Go, At, histVars
    <3> QED
      BY <2>4, <3>1 DEF PairInv, Signing, Candidate, PairPartedOnlyByACut, EnrolledKey, At, Others
  <2> QED
    BY <1>7, <2>2, <2>3, <2>4 DEF Publish
<1>8. ASSUME Environment
      PROVE  PairInv'
  <2>1. UNCHANGED <<key, pending, cert, torn, made, run>>
    BY <1>8
       DEF Environment, Approve, Revoke, DistributePolicy, Tick, LoseCredential, fileVars,
           runVars, histVars
  <2> QED
    BY <2>1 DEF PairInv, Signing, Candidate, PairPartedOnlyByACut, EnrolledKey, At
<1>9. ASSUME UNCHANGED vars
      PROVE  PairInv'
  BY <1>9
     DEF PairInv, Signing, Candidate, PairPartedOnlyByACut, EnrolledKey, At, vars, fileVars,
         runVars, histVars
<1> QED
  BY <1>1, <1>2, <1>3, <1>4, <1>5, <1>6, <1>7, <1>8, <1>9
     DEF Next, RunStep, EnrollStep, LockStep, AssessStep, RenewStep, QuietStep
-----------------------------------------------------------------------------
(***************************************************************************)
(* What an assessment read without the lock.                               *)
(***************************************************************************)

\* A quiet step teaches no run anything about the pair.
LEMMA VerdictKept ==
  ASSUME VerdictInv, NEW r \in Run, Others(r), run'[r].at # "readKey",
         UNCHANGED <<key, pending, cert>>, made \subseteq made'
  PROVE  VerdictInv'
<1>1. \A s \in Run : run'[s].at = "readKey" => s # r /\ run'[s] = run[s]
  BY DEF Others
<1>2. StagedIsNew'
  BY <1>1 DEF VerdictInv, StagedIsNew, At
<1>3. ReadPaired'
  BY <1>1 DEF VerdictInv, ReadPaired, Paired, At
<1> QED
  BY <1>2, <1>3 DEF VerdictInv

\* An unlocked assessment is sound after every step.
LEMMA VerdictNext == TypeOK /\ PairInv /\ VerdictInv /\ [Next]_vars => VerdictInv'
<1> SUFFICES ASSUME TypeOK, PairInv, VerdictInv, [Next]_vars PROVE VerdictInv'
  OBVIOUS
<1>1. ASSUME NEW r \in Run, QuietStep(r)
      PROVE  VerdictInv'
  BY <1>1, QuietSteps, VerdictKept DEF Quietly, Quiet
<1>2. ASSUME NEW r \in Run, ReadCert(r)
      PROVE  VerdictInv'
  <2>1. UNCHANGED <<key, pending, cert, made>>
    BY <1>2 DEF ReadCert, fileVars
  <2>2. run'[r].at = "readKey" /\ run'[r].chain = cert /\ Others(r)
    BY <1>2, Reads DEF ReadCert
  <2> QED
    BY <2>1, <2>2 DEF VerdictInv, StagedIsNew, ReadPaired, Paired, At, Others
<1>3. ASSUME NEW r \in Run, ChooseKey(r)
      PROVE  VerdictInv'
  <2>1. PICK k : run' = [run EXCEPT ![r].key = k, ![r].at = "chooseJwk"]
    BY <1>3 DEF ChooseKey
  <2>2. run'[r].at = "chooseJwk" /\ Others(r) /\ cert' = cert
    BY <1>3, <2>1, ChoosesKey DEF ChooseKey
  <2>3. CASE UNCHANGED <<key, pending, made>>
    BY <2>2, <2>3, VerdictKept
  <2>4. ASSUME NEW n \in Key \ made, made' = made \union {n},
               IF EnrolledKey = None THEN key' = n /\ UNCHANGED pending ELSE pending' = n /\ UNCHANGED key
        PROVE  VerdictInv'
    <3>1. \A s \in Run : run'[s].at = "readKey" => run'[s] = run[s] /\ run[s].at = "readKey"
      BY <2>2 DEF Others
    <3>2. EnrolledKey = None => pending = None /\ key = None
      BY X509LifecycleAssumption DEF EnrolledKey, X509LifecycleAssumption, TypeOK
    <3>3. StagedIsNew'
      BY <2>2, <2>4, <3>1, <3>2 DEF VerdictInv, StagedIsNew, At
    <3>4. ReadPaired'
      BY <2>2, <2>4, <3>1, <3>2 DEF VerdictInv, StagedIsNew, ReadPaired, Paired, At
    <3> QED
      BY <3>3, <3>4 DEF VerdictInv
  <2>5. CASE EnrolledKey # None /\ ~KeyRevoked(run[r].seen, EnrolledKey)
    BY <1>3, <2>3, <2>5 DEF ChooseKey
  <2>6. CASE EnrolledKey # None => KeyRevoked(run[r].seen, EnrolledKey)
    <3>1. PICK n \in Key \ made : /\ made' = made \union {n}
                                  /\ IF EnrolledKey = None THEN key' = n /\ UNCHANGED pending ELSE pending' = n /\ UNCHANGED key
      BY <1>3, <2>6 DEF ChooseKey
    <3> QED
      BY <2>4, <3>1
  <2> QED
    BY <2>5, <2>6
<1>4. ASSUME NEW r \in Run, CreateCsr(r)
      PROVE  VerdictInv'
  <2>1. run'[r].at = "sign" /\ Others(r)
    BY <1>4, Asks DEF CreateCsr
  <2> QED
    BY <1>4, <2>1, VerdictKept DEF CreateCsr, fileVars
<1>5. ASSUME NEW r \in Run, Sign(r)
      PROVE  VerdictInv'
  <2>1. run'[r].at = "validate" /\ Others(r)
    BY <1>5, Receives DEF Sign
  <2> QED
    BY <1>5, <2>1, VerdictKept DEF Sign, fileVars
<1>6. ASSUME NEW r \in Run, Validate(r)
      PROVE  VerdictInv'
  <2>1. run'[r].at = "moveKey" /\ Others(r)
    BY <1>6, Goes DEF Validate, Go
  <2> QED
    BY <1>6, <2>1, VerdictKept DEF Validate, fileVars
<1>7. ASSUME NEW r \in Run, Publish(r)
      PROVE  VerdictInv'
  <2>1. PICK l \in {"moveCert", "syncDir", "hook"} : Go(r, l)
    BY <1>7 DEF Publish
  <2>2. run'[r].at # "readKey" /\ Others(r) /\ made' = made
    BY <1>7, <2>1, Goes DEF Go, Publish
  <2>3. \A s \in Run : run'[s].at = "readKey" => run'[s] = run[s] /\ run[s].at = "readKey"
    BY <2>2 DEF Others
  <2>4. CASE At(r, "moveKey")
    <3>1. cert' = cert /\ IF pending # None THEN key' = pending /\ pending' = None ELSE UNCHANGED <<key, pending>>
      BY <1>7, <2>4 DEF Publish, At
    <3>2. cert # None => cert.key \in Key
      BY DEF TypeOK, Cert
    <3>3. \A s \in Run : run[s].chain # None => run[s].chain.key \in Key
      BY DEF TypeOK, RunRecord, Cert
    <3>4. StagedIsNew'
      BY <2>2, <2>3, <3>1, <3>2, <3>3, X509LifecycleAssumption
         DEF VerdictInv, StagedIsNew, At, X509LifecycleAssumption
    <3>5. ReadPaired'
      BY <2>3, <3>1 DEF VerdictInv, StagedIsNew, ReadPaired, Paired, At
    <3> QED
      BY <3>4, <3>5 DEF VerdictInv
  <2>5. CASE At(r, "moveCert")
    <3>1. cert' = run[r].cand /\ UNCHANGED <<key, pending>>
      BY <1>7, <2>5 DEF Publish, At
    <3>2. run[r].cand \in Cert /\ run[r].cand.key \in made /\ run[r].cand.key = key /\ pending = None
      BY <2>5 DEF PairInv, Candidate
    <3>3. cert' # None /\ cert'.key # None
      BY <3>1, <3>2, X509LifecycleAssumption DEF X509LifecycleAssumption, Cert
    <3> QED
      BY <2>2, <2>3, <3>1, <3>2, <3>3 DEF VerdictInv, StagedIsNew, ReadPaired, Paired, At
  <2>6. CASE At(r, "syncDir")
    BY <1>7, <2>2, <2>6, VerdictKept DEF Publish, At
  <2> QED
    BY <1>7, <2>4, <2>5, <2>6 DEF Publish
<1>8. ASSUME Environment
      PROVE  VerdictInv'
  <2>1. UNCHANGED <<key, pending, cert, made, run>>
    BY <1>8
       DEF Environment, Approve, Revoke, DistributePolicy, Tick, LoseCredential, fileVars,
           runVars
  <2> QED
    BY <2>1 DEF VerdictInv, StagedIsNew, ReadPaired, Paired, At
<1>9. ASSUME UNCHANGED vars
      PROVE  VerdictInv'
  BY <1>9 DEF VerdictInv, StagedIsNew, ReadPaired, Paired, At, vars, fileVars, runVars
<1> QED
  BY <1>1, <1>2, <1>3, <1>4, <1>5, <1>6, <1>7, <1>8, <1>9
     DEF Next, RunStep, EnrollStep, LockStep, AssessStep, RenewStep, QuietStep

-----------------------------------------------------------------------------
(***************************************************************************)
(* What the host holds and what the CA pinned.                             *)
(***************************************************************************)
Asking == {"chooseJwk", "removeJwk", "removing", "placeJwk", "print"}

\* What a step that concerns neither the enrolled keys nor the CA leaves alone.
Apart(r) ==
  /\ EnrolledKey' = EnrolledKey
  /\ UNCHANGED <<cred, hostLedger, pinned, tombstones, requests, losses>>
  /\ run'[r].at \notin Asking
  /\ run'[r].seen \in {{}, hostLedger, run[r].seen}
  /\ Others(r)

\* Such a step changes nothing that matters to a request.
LEMMA HeldKept == ASSUME TypeOK, HeldInv, NEW r \in Run, Apart(r) PROVE HeldInv'
<1> SUFFICES ASSUME losses' = 0 PROVE LedgersLag' /\ Preparing' /\ Requested' /\ PinnedAlive'
  BY DEF HeldInv
<1>1. LedgersLag /\ Preparing /\ Requested /\ PinnedAlive
  BY DEF HeldInv, Apart
<1>2. LedgersLag'
  BY <1>1 DEF LedgersLag, Apart, Others
<1>3. \A s \in Run : run'[s].at \in Asking => run'[s] = run[s] /\ run[s].at \in Asking
  BY DEF Apart, Others
<1>4. ASSUME NEW q PROVE Alive(q)' = Alive(q) /\ Held(q)' = Held(q)
  BY DEF Apart, Alive, Held, KeyRevoked, JwkRevoked
<1>5. Requested' /\ PinnedAlive'
  BY <1>1, <1>4 DEF Requested, PinnedAlive, Apart
<1>6. ASSUME NEW s \in Run, run'[s].at \in Asking
      PROVE  Asked(s)' = Asked(s)
  BY <1>3, <1>6 DEF Asked
<1>7. Preparing'
  BY <1>1, <1>3, <1>4, <1>6 DEF Preparing, PreparingOf, Asking, At, Apart, JwkRevoked
<1> QED
  BY <1>2, <1>5, <1>7


ApartStep(r) ==
  \/ StartEnroll(r) \/ \E op \in Ops : StartAssess(r, op)
  \/ LockMaterial(r) \/ LockTimesOut(r) \/ EnrollFails(r)
  \/ AssessStep(r) \/ RenewStep(r) \/ Kill(r)

\* Every step that is not an enrollment's or the CA's is such a step.
LEMMA ApartSteps == ASSUME TypeOK, NEW r \in Run, ApartStep(r) PROVE Apart(r)
<1>1. ASSUME StartEnroll(r) \/ \E op \in Ops : StartAssess(r, op)
      PROVE  Apart(r)
  <2>1. UNCHANGED <<key, pending, cred, hostLedger, pinned, tombstones, requests, losses>>
    BY <1>1 DEF StartEnroll, StartAssess, fileVars, caVars
  <2>2. run'[r].at \notin Asking /\ run'[r].seen \in {{}, run[r].seen, hostLedger} /\ Others(r)
    BY <1>1, Starts DEF StartEnroll, StartAssess, Asking
  <2> QED
    BY <2>1, <2>2 DEF Apart, EnrolledKey
<1>2. ASSUME LockMaterial(r)
      PROVE  Apart(r)
  <2>1. UNCHANGED <<key, pending, cred, hostLedger, pinned, tombstones, requests, losses>>
    BY <1>2 DEF LockMaterial, fileVars, caVars
  <2>2. Go(r, "chooseKey") \/ Go(r, "reassess")
    BY <1>2 DEF LockMaterial
  <2>3. run'[r].at \notin Asking /\ run'[r].seen = run[r].seen /\ Others(r)
    BY <2>2, Goes DEF Go, Asking
  <2> QED
    BY <2>1, <2>3 DEF Apart, EnrolledKey
<1>3. ASSUME LockTimesOut(r)
      PROVE  Apart(r)
  <2>1. UNCHANGED <<key, pending, cred, hostLedger, pinned, tombstones, requests, losses>>
    BY <1>3 DEF LockTimesOut, fileVars, caVars
  <2>2. run'[r].at \notin Asking /\ run'[r].seen \in {{}, run[r].seen, hostLedger} /\ Others(r)
    BY <1>3, Ends DEF LockTimesOut, Asking
  <2> QED
    BY <2>1, <2>2 DEF Apart, EnrolledKey
<1>4. ASSUME EnrollFails(r)
      PROVE  Apart(r)
  <2>1. UNCHANGED <<key, pending, cred, hostLedger, pinned, tombstones, requests, losses>>
    BY <1>4 DEF EnrollFails, fileVars, caVars
  <2>2. run'[r].at \notin Asking /\ run'[r].seen \in {{}, run[r].seen, hostLedger} /\ Others(r)
    BY <1>4, Ends DEF EnrollFails, Asking
  <2> QED
    BY <2>1, <2>2 DEF Apart, EnrolledKey
<1>5. ASSUME ReadCert(r)
      PROVE  Apart(r)
  <2>1. UNCHANGED <<key, pending, cred, hostLedger, pinned, tombstones, requests, losses>>
    BY <1>5 DEF ReadCert, fileVars, caVars
  <2>2. run'[r].at \notin Asking /\ run'[r].seen \in {{}, run[r].seen, hostLedger} /\ Others(r)
    BY <1>5, Reads DEF ReadCert, Asking
  <2> QED
    BY <2>1, <2>2 DEF Apart, EnrolledKey
<1>6. ASSUME ReadKey(r)
      PROVE  Apart(r)
  <2>1. UNCHANGED <<key, pending, cred, hostLedger, pinned, tombstones, requests, losses>>
    BY <1>6 DEF ReadKey, fileVars, caVars
  <2>2. (\E ok : Exit(r, ok)) \/ \E usable :
          run' = [run EXCEPT ![r] = [Idle(FALSE) EXCEPT !.op = run[r].op, !.at = "tryLock", !.usable = usable]]
    BY <1>6 DEF ReadKey
  <2>3. run'[r].at \notin Asking /\ run'[r].seen = {} /\ Others(r)
    BY <2>2, Ends, Needs DEF Asking
  <2> QED
    BY <2>1, <2>3 DEF Apart, EnrolledKey
<1>7. ASSUME AssessFails(r)
      PROVE  Apart(r)
  <2>1. UNCHANGED <<key, pending, cred, hostLedger, pinned, tombstones, requests, losses>>
    BY <1>7 DEF AssessFails, Fail, fileVars, caVars
  <2>2. run'[r].at \notin Asking /\ run'[r].seen \in {{}, run[r].seen, hostLedger} /\ Others(r)
    BY <1>7, Ends DEF AssessFails, Fail, Asking
  <2> QED
    BY <2>1, <2>2 DEF Apart, EnrolledKey
<1>8. ASSUME TryLock(r)
      PROVE  Apart(r)
  <2>1. UNCHANGED <<key, pending, cred, hostLedger, pinned, tombstones, requests, losses>>
    BY <1>8 DEF TryLock, fileVars, caVars
  <2>2. Exit(r, TRUE) \/ Go(r, "reassess") \/ Go(r, "waitLock")
    BY <1>8 DEF TryLock
  <2>3. CASE Exit(r, TRUE)
    BY <2>1, <2>3, Ends DEF Apart, EnrolledKey, Asking
  <2>4. ASSUME NEW l \in {"reassess", "waitLock"}, Go(r, l) PROVE Apart(r)
    <3>1. run'[r].at = l /\ run'[r].seen = run[r].seen /\ Others(r)
      BY <2>4, Goes DEF Go
    <3> QED
      BY <2>1, <3>1 DEF Apart, EnrolledKey, Asking
  <2> QED
    BY <2>2, <2>3, <2>4
<1>9. ASSUME Reassess(r)
      PROVE  Apart(r)
  <2>1. UNCHANGED <<key, pending, cred, hostLedger, pinned, tombstones, requests, losses>>
    BY <1>9 DEF Reassess, fileVars, caVars
  <2>2. Exit(r, TRUE) \/ \E usable : run' = [run EXCEPT ![r].usable = usable, ![r].t = now, ![r].at = "issue"]
    BY <1>9 DEF Reassess
  <2>3. CASE Exit(r, TRUE)
    BY <2>1, <2>3, Ends DEF Apart, EnrolledKey, Asking
  <2>4. ASSUME NEW usable, run' = [run EXCEPT ![r].usable = usable, ![r].t = now, ![r].at = "issue"]
        PROVE  Apart(r)
    <3>1. run'[r].at = "issue" /\ run'[r].seen = run[r].seen /\ Others(r)
      BY <2>4, Assesses
    <3> QED
      BY <2>1, <3>1 DEF Apart, EnrolledKey, Asking
  <2> QED
    BY <2>2, <2>3, <2>4
<1>10. ASSUME ReassessFails(r)
      PROVE  Apart(r)
  <2>1. UNCHANGED <<key, pending, cred, hostLedger, pinned, tombstones, requests, losses>>
    BY <1>10 DEF ReassessFails, Fail, fileVars, caVars
  <2>2. run'[r].at \notin Asking /\ run'[r].seen \in {{}, run[r].seen, hostLedger} /\ Others(r)
    BY <1>10, Ends DEF ReassessFails, Fail, Asking
  <2> QED
    BY <2>1, <2>2 DEF Apart, EnrolledKey
<1>11. ASSUME ProbeFails(r)
      PROVE  Apart(r)
  <2>1. UNCHANGED <<key, pending, cred, hostLedger, pinned, tombstones, requests, losses>>
    BY <1>11 DEF ProbeFails, Fail, fileVars, caVars
  <2>2. run'[r].at \notin Asking /\ run'[r].seen \in {{}, run[r].seen, hostLedger} /\ Others(r)
    BY <1>11, Ends DEF ProbeFails, Fail, Asking
  <2> QED
    BY <2>1, <2>2 DEF Apart, EnrolledKey
<1>12. ASSUME IssueFails(r)
      PROVE  Apart(r)
  <2>1. UNCHANGED <<key, pending, cred, hostLedger, pinned, tombstones, requests, losses>>
    BY <1>12 DEF IssueFails, Fail, fileVars, caVars
  <2>2. run'[r].at \notin Asking /\ run'[r].seen \in {{}, run[r].seen, hostLedger} /\ Others(r)
    BY <1>12, Ends DEF IssueFails, Fail, Asking
  <2> QED
    BY <2>1, <2>2 DEF Apart, EnrolledKey
<1>13. ASSUME SignFails(r)
      PROVE  Apart(r)
  <2>1. UNCHANGED <<key, pending, cred, hostLedger, pinned, tombstones, requests, losses>>
    BY <1>13 DEF SignFails, Fail, fileVars, caVars
  <2>2. run'[r].at \notin Asking /\ run'[r].seen \in {{}, run[r].seen, hostLedger} /\ Others(r)
    BY <1>13, Ends DEF SignFails, Fail, Asking
  <2> QED
    BY <2>1, <2>2 DEF Apart, EnrolledKey
<1>14. ASSUME ValidateFails(r)
      PROVE  Apart(r)
  <2>1. UNCHANGED <<key, pending, cred, hostLedger, pinned, tombstones, requests, losses>>
    BY <1>14 DEF ValidateFails, Fail, fileVars, caVars
  <2>2. run'[r].at \notin Asking /\ run'[r].seen \in {{}, run[r].seen, hostLedger} /\ Others(r)
    BY <1>14, Ends DEF ValidateFails, Fail, Asking
  <2> QED
    BY <2>1, <2>2 DEF Apart, EnrolledKey
<1>15. ASSUME PublishFails(r)
      PROVE  Apart(r)
  <2>1. UNCHANGED <<key, pending, cred, hostLedger, pinned, tombstones, requests, losses>>
    BY <1>15 DEF PublishFails, Fail, fileVars, caVars
  <2>2. run'[r].at \notin Asking /\ run'[r].seen \in {{}, run[r].seen, hostLedger} /\ Others(r)
    BY <1>15, Ends DEF PublishFails, Fail, Asking
  <2> QED
    BY <2>1, <2>2 DEF Apart, EnrolledKey
<1>16. ASSUME AfterRenewFails(r)
      PROVE  Apart(r)
  <2>1. UNCHANGED <<key, pending, cred, hostLedger, pinned, tombstones, requests, losses>>
    BY <1>16 DEF AfterRenewFails, Fail, fileVars, caVars
  <2>2. run'[r].at \notin Asking /\ run'[r].seen \in {{}, run[r].seen, hostLedger} /\ Others(r)
    BY <1>16, Ends DEF AfterRenewFails, Fail, Asking
  <2> QED
    BY <2>1, <2>2 DEF Apart, EnrolledKey
<1>17. ASSUME CreateCsr(r)
      PROVE  Apart(r)
  <2>1. UNCHANGED <<key, pending, cred, hostLedger, pinned, tombstones, requests, losses>>
    BY <1>17 DEF CreateCsr, fileVars, caVars
  <2>2. run'[r].at \notin Asking /\ run'[r].seen \in {{}, run[r].seen, hostLedger} /\ Others(r)
    BY <1>17, Asks DEF CreateCsr, Asking
  <2> QED
    BY <2>1, <2>2 DEF Apart, EnrolledKey
<1>18. ASSUME Sign(r)
      PROVE  Apart(r)
  <2>1. UNCHANGED <<key, pending, cred, hostLedger, pinned, tombstones, requests, losses>>
    BY <1>18 DEF Sign, fileVars, caVars
  <2>2. \E c : run' = [run EXCEPT ![r].cand = c, ![r].at = "validate"]
    BY <1>18 DEF Sign
  <2>3. run'[r].at \notin Asking /\ run'[r].seen = run[r].seen /\ Others(r)
    BY <2>2, Receives DEF Asking
  <2> QED
    BY <2>1, <2>3 DEF Apart, EnrolledKey
<1>19. ASSUME Validate(r)
      PROVE  Apart(r)
  <2>1. UNCHANGED <<key, pending, cred, hostLedger, pinned, tombstones, requests, losses>>
    BY <1>19 DEF Validate, fileVars, caVars
  <2>2. run'[r].at = "moveKey" /\ run'[r].seen = run[r].seen /\ Others(r)
    BY <1>19, Goes DEF Validate, Go
  <2> QED
    BY <2>1, <2>2 DEF Apart, EnrolledKey, Asking
<1>20. ASSUME Publish(r)
      PROVE  Apart(r)
  <2>1. UNCHANGED <<cred, hostLedger, pinned, tombstones, requests, losses>> /\ EnrolledKey' = EnrolledKey
    BY <1>20 DEF Publish, caVars, EnrolledKey
  <2>2. \E l \in {"moveCert", "syncDir", "hook"} : Go(r, l)
    BY <1>20 DEF Publish
  <2>3. run'[r].at \notin Asking /\ run'[r].seen = run[r].seen /\ Others(r)
    BY <2>2, Goes DEF Go, Asking
  <2> QED
    BY <2>1, <2>3 DEF Apart
<1>21. ASSUME RunAfterRenew(r)
      PROVE  Apart(r)
  <2>1. UNCHANGED <<key, pending, cred, hostLedger, pinned, tombstones, requests, losses>>
    BY <1>21 DEF RunAfterRenew, fileVars, caVars
  <2>2. run'[r].at \notin Asking /\ run'[r].seen \in {{}, run[r].seen, hostLedger} /\ Others(r)
    BY <1>21, Ends DEF RunAfterRenew, Asking
  <2> QED
    BY <2>1, <2>2 DEF Apart, EnrolledKey
<1>22. ASSUME Kill(r)
      PROVE  Apart(r)
  <2>1. UNCHANGED <<key, pending, cred, hostLedger, pinned, tombstones, requests, losses>>
    BY <1>22 DEF Kill, fileVars, caVars
  <2>2. run'[r].at \notin Asking /\ run'[r].seen \in {{}, run[r].seen, hostLedger} /\ Others(r)
    BY <1>22, Ends DEF Kill, Asking
  <2> QED
    BY <2>1, <2>2 DEF Apart, EnrolledKey
<1> QED
  BY <1>1, <1>2, <1>3, <1>4, <1>5, <1>6, <1>7, <1>8, <1>9, <1>10, <1>11, <1>12, <1>13, <1>14,
     <1>15, <1>16, <1>17, <1>18, <1>19, <1>20, <1>21, <1>22
     DEF ApartStep, AssessStep, RenewStep

\* A step of an enrollment under the lock keeps the live requests held.
LEMMA HeldMoved ==
  ASSUME TypeOK, HeldInv, losses = 0, NEW r \in Run, run[r].at \in Enrolling, Others(r),
         UNCHANGED <<hostLedger, pinned, tombstones, requests, losses>>, run'[r].seen = run[r].seen,
         \A q \in Pair : Alive(q) /\ Held(q) => Held(q)', PreparingOf(r)'
  PROVE  HeldInv'
<1>1. LedgersLag /\ Preparing /\ Requested /\ PinnedAlive
  BY DEF HeldInv
<1>2. LedgersLag'
  BY <1>1 DEF LedgersLag, Others
<1>3. ASSUME NEW q PROVE Alive(q)' = Alive(q)
  BY DEF Alive, KeyRevoked, JwkRevoked
<1>4. Requested' /\ PinnedAlive'
  BY <1>1, <1>3 DEF Requested, PinnedAlive, TypeOK
<1>5. ASSUME NEW s \in Run \ {r} PROVE PreparingOf(s)'
  <2>1. run'[s] = run[s] /\ run[s].at \notin Locked
    BY OneLocked DEF Others, Locked
  <2>2. Asked(s)' = Asked(s) /\ (At(s, "print") => Asked(s) \in Pair)
    BY <2>1 DEF Asked, At, TypeOK, KeysChosen, Pair
  <2>3. PreparingOf(s)
    BY <1>1 DEF Preparing
  <2>4. At(s, "print") /\ Alive(Asked(s))' => Held(Asked(s))'
    BY <1>3, <2>2, <2>3 DEF PreparingOf, At
  <2>5. At(s, "print")' <=> At(s, "print")
    BY <2>1 DEF At
  <2> QED
    BY <2>1, <2>2, <2>4, <2>5 DEF PreparingOf, At, Locked, Enrolling
<1>6. Preparing'
  BY <1>5 DEF Preparing
<1> QED
  BY <1>2, <1>4, <1>6 DEF HeldInv

\* A tombstone that the policy had is one that the CA has.
LEMMA RevokedThere ==
  ASSUME HeldInv, losses = 0, NEW r \in Run
  PROVE  /\ \A k : KeyRevoked(run[r].seen, k) => KeyRevoked(tombstones, k)
         /\ \A j : JwkRevoked(run[r].seen, j) => JwkRevoked(tombstones, j)
  BY DEF HeldInv, LedgersLag, KeyRevoked, JwkRevoked

\* ChooseKey changes the enrolled key only where no live request covers it.
LEMMA ChooseKeyHeld == ASSUME TypeOK, HeldInv, losses = 0, NEW r \in Run, ChooseKey(r) PROVE HeldInv'
<1>1. PICK k \in Key : /\ run' = [run EXCEPT ![r].key = k, ![r].at = "chooseJwk"]
                       /\ EnrolledKey' = k
                       /\ k = EnrolledKey \/ EnrolledKey = None \/ KeyRevoked(run[r].seen, EnrolledKey)
  <2>1. EnrolledKey \in Key \union {None} /\ (EnrolledKey = None => pending = None)
    BY X509LifecycleAssumption DEF EnrolledKey, TypeOK, X509LifecycleAssumption
  <2>2. CASE EnrolledKey # None /\ ~KeyRevoked(run[r].seen, EnrolledKey)
    BY <2>1, <2>2 DEF ChooseKey, EnrolledKey
  <2>3. CASE EnrolledKey # None => KeyRevoked(run[r].seen, EnrolledKey)
    <3>1. PICK k \in Key \ made : /\ run' = [run EXCEPT ![r].key = k, ![r].at = "chooseJwk"]
                                  /\ IF EnrolledKey = None THEN key' = k /\ UNCHANGED pending
                                                           ELSE pending' = k /\ UNCHANGED key
      BY <2>3 DEF ChooseKey
    <3>2. EnrolledKey' = k
      BY <2>1, <3>1, X509LifecycleAssumption DEF EnrolledKey, X509LifecycleAssumption
    <3> QED
      BY <2>3, <3>1, <3>2
  <2> QED
    BY <2>2, <2>3
<1>2. run'[r].key = k /\ run'[r].at = "chooseJwk" /\ run'[r].seen = run[r].seen /\ Others(r)
  BY <1>1, ChoosesKey
<1>3. /\ run[r].at \in Enrolling
      /\ UNCHANGED <<cred, hostLedger, pinned, tombstones, requests, losses>>
  BY DEF ChooseKey, At, Enrolling, caVars
<1>4. ASSUME NEW q \in Pair, Alive(q), Held(q) PROVE Held(q)'
  <2>1. EnrolledKey = q.key /\ cred = q.jwk /\ q.key # None /\ ~KeyRevoked(tombstones, q.key)
    BY <1>4, X509LifecycleAssumption DEF Held, Alive, Pair, X509LifecycleAssumption
  <2>2. ~KeyRevoked(run[r].seen, EnrolledKey)
    BY <2>1, RevokedThere
  <2> QED
    BY <1>1, <1>3, <2>1, <2>2 DEF Held
<1>5. PreparingOf(r)'
  BY <1>1, <1>2 DEF PreparingOf, At
<1> QED
  BY <1>2, <1>3, <1>4, <1>5, HeldMoved

\* ChooseJwk reuses a live credential or is about to replace a dead one.
LEMMA ChooseJwkHeld == ASSUME TypeOK, HeldInv, losses = 0, NEW r \in Run, ChooseJwk(r) PROVE HeldInv'
<1>1. /\ At(r, "chooseJwk") /\ run[r].at \in Enrolling
      /\ UNCHANGED <<key, pending, cred, hostLedger, pinned, tombstones, requests, losses>>
  BY DEF ChooseJwk, At, Enrolling, fileVars, caVars
<1>2. run[r].key = EnrolledKey /\ EnrolledKey' = EnrolledKey
  BY <1>1 DEF HeldInv, Preparing, PreparingOf, At, EnrolledKey
<1>3. \A q \in Pair : Alive(q) /\ Held(q) => Held(q)'
  BY <1>1, <1>2 DEF Held
<1>4. CASE Prepared(r, cred)
  <2>1. JwkChosen(r, cred, "print")
    BY <1>4 DEF Prepared, JwkChosen
  <2>2. /\ run'[r].at = "print" /\ run'[r].jwk = cred /\ run'[r].key = run[r].key
        /\ run'[r].seen = run[r].seen /\ Others(r)
    BY <2>1, ChoosesJwk
  <2>3. PreparingOf(r)'
    BY <1>1, <1>2, <2>2 DEF PreparingOf, Held, Asked, At
  <2> QED
    BY <1>1, <1>3, <2>2, <2>3, HeldMoved
<1>5. ASSUME NEW j \in Jwk, cred = None \/ (cred \in Jwk /\ JwkRevoked(run[r].seen, cred)),
             run' = [run EXCEPT ![r].jwk = j, ![r].at = IF cred = None THEN "placeJwk" ELSE "removeJwk"]
      PROVE  HeldInv'
  <2>1. CASE cred = None
    <3>1. JwkChosen(r, j, "placeJwk")
      BY <1>5, <2>1 DEF JwkChosen
    <3>2. run'[r].at = "placeJwk" /\ run'[r].key = run[r].key /\ run'[r].seen = run[r].seen /\ Others(r)
      BY <3>1, ChoosesJwk
    <3>3. PreparingOf(r)'
      BY <1>1, <1>2, <2>1, <3>2 DEF PreparingOf, At
    <3> QED
      BY <1>1, <1>3, <3>2, <3>3, HeldMoved
  <2>2. CASE cred # None
    <3>1. JwkChosen(r, j, "removeJwk")
      BY <1>5, <2>2 DEF JwkChosen
    <3>2. run'[r].at = "removeJwk" /\ run'[r].key = run[r].key /\ run'[r].seen = run[r].seen /\ Others(r)
      BY <3>1, ChoosesJwk
    <3>3. JwkRevoked(tombstones', cred')
      BY <1>1, <1>5, <2>2, RevokedThere
    <3>4. PreparingOf(r)'
      BY <1>1, <1>2, <3>2, <3>3 DEF PreparingOf, At
    <3> QED
      BY <1>1, <1>3, <3>2, <3>4, HeldMoved
  <2> QED
    BY <2>1, <2>2
<1>6. CASE Exit(r, FALSE)
  BY <1>1, <1>2, <1>6, Ends, HeldKept DEF Apart, Asking
<1> QED
  BY <1>4, <1>5, <1>6 DEF ChooseJwk

\* The credential that is removed is tombstoned, so no live request is for it.
LEMMA RemoveJwkHeld == ASSUME TypeOK, HeldInv, losses = 0, NEW r \in Run, RemoveJwk(r) PROVE HeldInv'
<1>1. /\ run[r].at \in {"removeJwk", "removing"} /\ run[r].at \in Enrolling
      /\ EnrolledKey' = EnrolledKey
      /\ UNCHANGED <<hostLedger, pinned, tombstones, requests, losses>>
  BY DEF RemoveJwk, At, Enrolling, EnrolledKey, caVars
<1>2. run[r].key = EnrolledKey /\ (cred = Partial \/ JwkRevoked(tombstones, cred))
  BY <1>1 DEF HeldInv, Preparing, PreparingOf, At
<1>3. ASSUME NEW q \in Pair, Alive(q), Held(q) PROVE Held(q)'
  BY <1>2, <1>3, X509LifecycleAssumption DEF Held, Alive, Pair, X509LifecycleAssumption
<1>4. CASE At(r, "removeJwk")
  <2>1. cred' = Partial /\ Go(r, "removing")
    BY <1>4 DEF RemoveJwk, At
  <2>2. run'[r].at = "removing" /\ run'[r].key = run[r].key /\ run'[r].seen = run[r].seen /\ Others(r)
    BY <2>1, Goes DEF Go
  <2>3. PreparingOf(r)'
    BY <1>1, <1>2, <2>1, <2>2 DEF PreparingOf, At
  <2> QED
    BY <1>1, <1>3, <2>2, <2>3, HeldMoved
<1>5. CASE At(r, "removing")
  <2>1. cred' = None /\ Go(r, "placeJwk")
    BY <1>5 DEF RemoveJwk, At
  <2>2. run'[r].at = "placeJwk" /\ run'[r].key = run[r].key /\ run'[r].seen = run[r].seen /\ Others(r)
    BY <2>1, Goes DEF Go
  <2>3. PreparingOf(r)'
    BY <1>1, <1>2, <2>1, <2>2 DEF PreparingOf, At
  <2> QED
    BY <1>1, <1>3, <2>2, <2>3, HeldMoved
<1> QED
  BY <1>1, <1>4, <1>5 DEF At

\* The credential that is placed is the one that will be asked for.
LEMMA PlaceJwkHeld == ASSUME TypeOK, HeldInv, losses = 0, NEW r \in Run, PlaceJwk(r) PROVE HeldInv'
<1>1. /\ At(r, "placeJwk") /\ run[r].at \in Enrolling
      /\ EnrolledKey' = EnrolledKey /\ cred' = run[r].jwk
      /\ UNCHANGED <<hostLedger, pinned, tombstones, requests, losses>>
  BY DEF PlaceJwk, At, Enrolling, EnrolledKey, caVars
<1>2. run[r].key = EnrolledKey /\ cred = None
  BY <1>1 DEF HeldInv, Preparing, PreparingOf, At
<1>3. ASSUME NEW q \in Pair, Alive(q), Held(q) PROVE Held(q)'
  BY <1>2, <1>3, X509LifecycleAssumption DEF Held, Pair, X509LifecycleAssumption
<1>4. JwkChosen(r, run[r].jwk, "print")
  BY DEF PlaceJwk, Prepared, JwkChosen
<1>5. /\ run'[r].at = "print" /\ run'[r].jwk = run[r].jwk /\ run'[r].key = run[r].key
      /\ run'[r].seen = run[r].seen /\ Others(r)
  BY <1>4, ChoosesJwk
<1>6. PreparingOf(r)'
  BY <1>1, <1>2, <1>5 DEF PreparingOf, Held, Asked, At
<1> QED
  BY <1>1, <1>3, <1>5, <1>6, HeldMoved

\* What is printed was true when it was chosen, and still is while it is live.
LEMMA PrintHeld == ASSUME TypeOK, HeldInv, losses = 0, NEW r \in Run, PrintRequest(r) PROVE HeldInv'
<1>1. /\ At(r, "print") /\ requests' = requests \union {Asked(r)}
      /\ EnrolledKey' = EnrolledKey
      /\ UNCHANGED <<cred, hostLedger, pinned, tombstones, losses>>
  BY DEF PrintRequest, Asked, EnrolledKey, fileVars, caVars
<1>2. run'[r].at = "idle" /\ run'[r].seen = {} /\ Others(r)
  BY Ends DEF PrintRequest
<1>3. LedgersLag /\ Preparing /\ Requested /\ PinnedAlive
  BY DEF HeldInv
<1>4. ASSUME NEW q PROVE Alive(q)' = Alive(q) /\ Held(q)' = Held(q)
  BY <1>1 DEF Alive, Held, KeyRevoked, JwkRevoked
<1>5. LedgersLag' /\ PinnedAlive'
  BY <1>1, <1>2, <1>3, <1>4 DEF LedgersLag, PinnedAlive, Others
<1>6. Requested'
  BY <1>1, <1>3, <1>4 DEF Requested, Preparing, PreparingOf
<1>7. \A s \in Run : run'[s].at \in Asking => run'[s] = run[s] /\ Asked(s)' = Asked(s)
  BY <1>2 DEF Asking, Others, Asked
<1>8. Preparing'
  BY <1>1, <1>3, <1>4, <1>7 DEF Preparing, PreparingOf, Asking, At, JwkRevoked
<1> QED
  BY <1>5, <1>6, <1>8 DEF HeldInv

\* The CA pins only a live request, and a tombstone only ends requests.
LEMMA EnvironmentHeld == ASSUME TypeOK, HeldInv, Environment PROVE HeldInv'
<1> SUFFICES ASSUME losses' = 0 PROVE HeldInv'
  BY DEF HeldInv
<1>1. losses = 0 /\ UNCHANGED <<run, requests, cred>> /\ EnrolledKey' = EnrolledKey
  BY
     DEF Environment, Approve, Revoke, DistributePolicy, Tick, LoseCredential, fileVars,
         runVars, EnrolledKey, TypeOK
<1>2. LedgersLag /\ Preparing /\ Requested /\ PinnedAlive
  BY <1>1 DEF HeldInv
<1>3. /\ tombstones \subseteq tombstones'
      /\ hostLedger' \in {hostLedger, tombstones}
  BY <1>1 DEF Environment, Approve, Revoke, DistributePolicy, Tick, LoseCredential, caVars, TypeOK
<1>4. ASSUME NEW q PROVE (Alive(q)' => Alive(q)) /\ Held(q)' = Held(q)
  BY <1>1, <1>3 DEF Alive, Held, KeyRevoked, JwkRevoked
<1>5. LedgersLag'
  BY <1>1, <1>2, <1>3 DEF LedgersLag
<1>6. Requested'
  BY <1>1, <1>2, <1>4 DEF Requested
<1>7. ASSUME NEW s \in Run PROVE PreparingOf(s)'
  <2>1. Asked(s)' = Asked(s) /\ At(s, "print")' = At(s, "print") /\ PreparingOf(s)
    BY <1>1, <1>2 DEF Asked, At, Preparing
  <2>2. At(s, "print")' /\ Alive(Asked(s))' => Held(Asked(s))'
    BY <1>4, <2>1 DEF PreparingOf
  <2> QED
    BY <1>1, <1>3, <2>1, <2>2 DEF PreparingOf, At, JwkRevoked
<1>8. PinnedAlive'
  <2>1. ASSUME NEW q \in requests, Approve(q) PROVE PinnedAlive'
    BY <2>1 DEF Approve, PinnedAlive, Alive
  <2>2. CASE Revoke
    BY <2>2 DEF Revoke, PinnedAlive
  <2>3. CASE UNCHANGED <<pinned, tombstones, requests>>
    BY <1>2, <2>3 DEF PinnedAlive, Alive
  <2> QED
    BY <2>1, <2>2, <2>3 DEF Environment, DistributePolicy, Tick, LoseCredential, caVars
<1> QED
  BY <1>5, <1>6, <1>7, <1>8 DEF HeldInv, Preparing

\* The CA's pair is what the host holds, after every step too.
LEMMA HeldNext == TypeOK /\ HeldInv /\ [Next]_vars => HeldInv'
<1> SUFFICES ASSUME TypeOK, HeldInv, [Next]_vars PROVE HeldInv'
  OBVIOUS
<1>1. ASSUME NEW r \in Run, ApartStep(r) PROVE HeldInv'
  BY <1>1, ApartSteps, HeldKept
<1>2. ASSUME NEW r \in Run, ChooseKey(r) \/ ChooseJwk(r) \/ RemoveJwk(r) \/ PlaceJwk(r) \/ PrintRequest(r)
      PROVE  HeldInv'
  <2>1. losses' = losses
    BY <1>2 DEF ChooseKey, ChooseJwk, RemoveJwk, PlaceJwk, PrintRequest
  <2>2. CASE losses = 0
    BY <1>2, <2>2, ChooseKeyHeld, ChooseJwkHeld, RemoveJwkHeld, PlaceJwkHeld, PrintHeld
  <2> QED
    BY <2>1, <2>2 DEF HeldInv
<1>3. CASE Environment
  BY <1>3, EnvironmentHeld
<1>4. CASE UNCHANGED vars
  BY <1>4
     DEF vars, fileVars, runVars, caVars, HeldInv, LedgersLag, Preparing, PreparingOf,
         Requested, PinnedAlive,
              Alive, Held, Asked, KeyRevoked, JwkRevoked, EnrolledKey, At
<1> QED
  BY <1>1, <1>2, <1>3, <1>4 DEF Next, RunStep, EnrollStep, LockStep, ApartStep
-----------------------------------------------------------------------------
(***************************************************************************)
(* What a renewal vouches for when it exits 0, and the service.            *)
(***************************************************************************)
Vouching == {"issue", "sign", "validate", "moveKey", "moveCert", "syncDir", "hook"}

\* A run that is not past its assessment vouches for nothing.
LEMMA NotVouching == ASSUME NEW r \in Run, run[r].at \notin Vouching PROVE VouchedOf(r)
  BY DEF VouchedOf, Vouching

\* While the pair stays, what the other runs know stays true.
LEMMA VouchedKept ==
  ASSUME TypeOK, Vouched, NEW r \in Run, Others(r), UNCHANGED <<key, cert, now>>, VouchedOf(r)'
  PROVE  Vouched'
  BY DEF Vouched, VouchedOf, Others, Usable

\* Where a run under the lock changes the pair, no other run knows anything.
LEMMA VouchedMoved ==
  ASSUME TypeOK, NEW r \in Run, Others(r), run[r].at \in Locked, VouchedOf(r)'
  PROVE  Vouched'
<1>1. ASSUME NEW s \in Run \ {r} PROVE VouchedOf(s)'
  <2>1. run'[s] = run[s] /\ run[s].at \notin Locked
    BY OneLocked DEF Others
  <2> QED
    BY <2>1 DEF VouchedOf, Locked, RenewLocked
<1> QED
  BY <1>1 DEF Vouched

\* What a run assessed under the lock stays true until it publishes.
LEMMA VouchedNext == TypeOK /\ PairInv /\ Vouched /\ [Next]_vars => Vouched'
<1> SUFFICES ASSUME TypeOK, PairInv, Vouched, [Next]_vars PROVE Vouched'
  OBVIOUS
<1>1. ASSUME NEW r \in Run, QuietStep(r) PROVE Vouched'
  <2>1. Quietly(r)
    BY <1>1, QuietSteps
  <2>2. CASE run'[r].at # "issue"
    <3>1. VouchedOf(r)'
      BY <2>1, <2>2 DEF Quietly, Quiet, VouchedOf
    <3> QED
      BY <2>1, <3>1, VouchedKept DEF Quietly
  <2>3. CASE run'[r].at = "issue"
    <3>1. Reassess(r)
      BY <2>1, <2>3 DEF Quietly
    <3>2. CASE Exit(r, TRUE)
      BY <2>3, <3>2, Ends
    <3>3. CASE run' = [run EXCEPT ![r].usable = Usable(cert, key, now), ![r].t = now, ![r].at = "issue"]
      <4>1. run'[r].usable = Usable(cert, key, now) /\ run'[r].t = now
        BY <3>3, Assesses
      <4>2. VouchedOf(r)'
        BY <2>1, <2>3, <4>1 DEF VouchedOf, Usable, Quietly, TypeOK
      <4> QED
        BY <2>1, <4>2, VouchedKept DEF Quietly
    <3> QED
      BY <3>1, <3>2, <3>3 DEF Reassess
  <2> QED
    BY <2>2, <2>3
<1>2. ASSUME NEW r \in Run, ReadCert(r) PROVE Vouched'
  <2>1. run'[r].at = "readKey" /\ Others(r)
    BY <1>2, Reads DEF ReadCert
  <2>2. VouchedOf(r)'
    BY <2>1 DEF VouchedOf
  <2> QED
    BY <1>2, <2>1, <2>2, VouchedKept DEF ReadCert, fileVars
<1>3. ASSUME NEW r \in Run, ChooseKey(r) PROVE Vouched'
  <2>1. PICK k : run' = [run EXCEPT ![r].key = k, ![r].at = "chooseJwk"]
    BY <1>3 DEF ChooseKey
  <2>2. run'[r].at = "chooseJwk" /\ Others(r) /\ run[r].at \in Locked
    BY <1>3, <2>1, ChoosesKey DEF ChooseKey, At, Locked, Enrolling
  <2>3. VouchedOf(r)'
    BY <2>2 DEF VouchedOf
  <2> QED
    BY <2>2, <2>3, VouchedMoved
<1>4. ASSUME NEW r \in Run, CreateCsr(r) PROVE Vouched'
  <2>1. /\ run'[r].at = "sign" /\ run'[r].t = run[r].t /\ run'[r].usable = run[r].usable
        /\ Others(r) /\ At(r, "issue") /\ UNCHANGED <<key, cert, now>>
    BY <1>4, Asks DEF CreateCsr, fileVars
  <2>2. VouchedOf(r)'
    BY <2>1 DEF Vouched, VouchedOf, At, Usable
  <2> QED
    BY <2>1, <2>2, VouchedKept
<1>5. ASSUME NEW r \in Run, Sign(r) PROVE Vouched'
  <2>1. PICK c : run' = [run EXCEPT ![r].cand = c, ![r].at = "validate"]
    BY <1>5 DEF Sign
  <2>2. /\ run'[r].at = "validate" /\ run'[r].t = run[r].t /\ run'[r].usable = run[r].usable
        /\ Others(r)
    BY <2>1, Receives
  <2>3. At(r, "sign") /\ UNCHANGED <<key, cert, now>>
    BY <1>5 DEF Sign, fileVars
  <2>4. VouchedOf(r)'
    BY <2>2, <2>3 DEF Vouched, VouchedOf, At, Usable
  <2> QED
    BY <2>2, <2>3, <2>4, VouchedKept
<1>6. ASSUME NEW r \in Run, Validate(r) PROVE Vouched'
  <2>1. run'[r].at = "moveKey" /\ run'[r].t = run[r].t /\ run'[r].cand = run[r].cand /\ Others(r)
    BY <1>6, Goes DEF Validate, Go
  <2>2. At(r, "validate") /\ UNCHANGED <<key, cert, now>> /\ run[r].cand.whole /\ run[r].cand.end > now
    BY <1>6 DEF Validate, Usable, fileVars
  <2>3. run[r].t <= now /\ run[r].t \in Int /\ now \in Int /\ run[r].cand.end \in Int
    BY <2>2 DEF Vouched, VouchedOf, At, TypeOK, RunRecord, PairInv, Candidate, Cert
  <2>4. VouchedOf(r)'
    BY <2>1, <2>2, <2>3 DEF VouchedOf
  <2> QED
    BY <2>1, <2>2, <2>4, VouchedKept
<1>7. ASSUME NEW r \in Run, Publish(r) PROVE Vouched'
  <2>1. run[r].at \in Locked
    BY <1>7 DEF Publish, At, Locked, RenewLocked
  <2>2. CASE At(r, "moveKey")
    <3>1. run'[r].at = "moveCert" /\ run'[r].t = run[r].t /\ run'[r].cand = run[r].cand /\ Others(r)
      BY <1>7, <2>2, Goes DEF Publish, Go, At
    <3>2. VouchedOf(r)'
      BY <2>2, <3>1 DEF Vouched, VouchedOf, At
    <3> QED
      BY <2>1, <3>1, <3>2, VouchedMoved
  <2>3. CASE At(r, "moveCert")
    <3>1. run'[r].at = "syncDir" /\ run'[r].t = run[r].t /\ Others(r)
      BY <1>7, <2>3, Goes DEF Publish, Go, At
    <3>2. cert' = run[r].cand /\ key' = key
      BY <1>7, <2>3 DEF Publish, At
    <3>3. run[r].cand \in Cert /\ run[r].cand.key = key /\ run[r].cand.whole /\ run[r].cand.end > run[r].t
      BY <2>3 DEF PairInv, Candidate, Vouched, VouchedOf, At
    <3>4. VouchedOf(r)'
      BY <3>1, <3>2, <3>3, X509LifecycleAssumption DEF VouchedOf, Usable, X509LifecycleAssumption
    <3> QED
      BY <2>1, <3>1, <3>4, VouchedMoved
  <2>4. CASE At(r, "syncDir")
    <3>1. run'[r].at = "hook" /\ run'[r].t = run[r].t /\ Others(r)
      BY <1>7, <2>4, Goes DEF Publish, Go, At
    <3>2. UNCHANGED <<key, cert, now>>
      BY <1>7, <2>4 DEF Publish, At
    <3>3. VouchedOf(r)'
      BY <2>4, <3>1, <3>2 DEF Vouched, VouchedOf, At, Usable
    <3> QED
      BY <3>1, <3>2, <3>3, VouchedKept
  <2> QED
    BY <1>7, <2>2, <2>3, <2>4 DEF Publish
<1>8. CASE Environment
  <2>1. UNCHANGED <<key, cert, run>> /\ now' \in Nat /\ now' >= now
    BY <1>8
       DEF Environment, Approve, Revoke, DistributePolicy, Tick, LoseCredential, fileVars,
           runVars, TypeOK
  <2>2. \A r \in Run : run[r].t \in Int
    BY DEF TypeOK, RunRecord
  <2> QED
    BY <2>1, <2>2 DEF Vouched, VouchedOf, Usable, TypeOK
<1>9. CASE UNCHANGED vars
  BY <1>9 DEF Vouched, VouchedOf, Usable, vars, fileVars, runVars
<1> QED
  BY <1>1, <1>2, <1>3, <1>4, <1>5, <1>6, <1>7, <1>8, <1>9
     DEF Next, RunStep, EnrollStep, LockStep, AssessStep, RenewStep, QuietStep

-----------------------------------------------------------------------------
(***************************************************************************)
(* The theorems.                                                           *)
(***************************************************************************)

\* Everything holds at the start.
LEMMA InitInvariants == Init => TypeOK /\ PairInv /\ VerdictInv
<1> SUFFICES ASSUME Init PROVE TypeOK /\ PairInv /\ VerdictInv
  OBVIOUS
<1>1. run \in [Run -> RunRecord] /\ \A r \in Run : run[r].at = "idle"
  BY IdleTyped DEF Init, Idle
<1>2. TypeOK
  BY <1>1, X509LifecycleAssumption
     DEF Init, TypeOK, LockHeld, KeysChosen, Locked, Enrolling, RenewLocked, X509LifecycleAssumption
<1>3. PairInv /\ VerdictInv
  BY <1>1
     DEF Init, PairInv, Signing, Candidate, PairPartedOnlyByACut, VerdictInv, StagedIsNew,
         ReadPaired, At
<1> QED
  BY <1>2, <1>3

\* The types, and the lock's mutual exclusion (prepare_enrollment, renew): the
\* lock is held by exactly the run that is between taking and releasing it.
THEOREM TypeCorrect == Spec => []TypeOK
<1> QED
  BY InitInvariants, TypeNext, PTL DEF Spec

\* Whatever overlaps, the live certificate is for the live key unless publishing
\* is between its two renames or was cut there (issue, publish).
THEOREM PairedUnlessCut == Spec => []PairPartedOnlyByACut
<1>1. PairInv => PairPartedOnlyByACut
  BY DEF PairInv
<1> QED
  BY <1>1, InitInvariants, TypeCorrect, PairNext, PTL DEF Spec

\* An assessment made without the lock never calls a parted pair usable (assess).
THEOREM UnlockedAssessmentSound == Spec => []UnlockedVerdictSound
<1>1. VerdictInv => UnlockedVerdictSound
  BY DEF VerdictInv, ReadPaired, UnlockedVerdictSound, Verdict, Usable
<1>2. Spec => []PairInv
  BY InitInvariants, TypeCorrect, PairNext, PTL DEF Spec
<1> QED
  BY <1>1, <1>2, InitInvariants, TypeCorrect, VerdictNext, PTL DEF Spec

\* No request, no enrollment and no policy is there at the start.
LEMMA InitHeld == Init => HeldInv
  BY DEF Init, HeldInv, LedgersLag, Preparing, PreparingOf, Requested, PinnedAlive, At, Idle

\* Short of a restore, the pair of keys that the CA pinned is the pair that the
\* host holds, whichever enrollments overlapped (prepare_enrollment).
THEOREM PinnedIsHeld == Spec => []ApprovedMaterialHeld
<1>1. HeldInv => ApprovedMaterialHeld
  BY DEF HeldInv, PinnedAlive, Requested, Held, ApprovedMaterialHeld
<1> QED
  BY <1>1, InitHeld, TypeCorrect, HeldNext, PTL DEF Spec

\* Nobody has assessed anything at the start.
LEMMA InitVouched == Init => Vouched
<1> SUFFICES ASSUME Init PROVE Vouched
  OBVIOUS
<1>1. \A r \in Run : run[r].at = "idle"
  BY DEF Init, Idle
<1> QED
  BY <1>1 DEF Vouched, VouchedOf

\* A renewal that fails before publishing exits 0 only while its certificate works.
LEMMA ToleratedWorks ==
  ASSUME TypeOK, Vouched, NEW r \in Run, run[r].at \in {"issue", "sign", "validate"}, NEW kind,
         Fail(r, kind, run[r].usable), run'[r].ok
  PROVE  Usable(cert, key, run[r].t)
<1>1. run'[r].ok = (run[r].op = "cron" /\ Tolerated(kind, run[r].usable))
  BY Ends DEF Fail
<1>2. run[r].usable
  BY <1>1 DEF Tolerated
<1> QED
  BY <1>2 DEF Vouched, VouchedOf

\* What the first assessment found is remembered up to the second.
LEMMA RememberedQuietly ==
  ASSUME TypeOK, Remembered, NEW r \in Run, QuietStep(r) PROVE RememberedOf(r)'
<1> DEFINE Waiting == {"waitLock", "tryLock", "reassess"}
<1>1. UNCHANGED cert /\ run'[r].at # "readKey"
  BY QuietSteps DEF Quietly, Quiet
<1>2. ASSUME run'[r].at \in Waiting, run'[r].usable PROVE cert # None
  <2>1. CASE StartEnroll(r)
    BY <1>2, <2>1 DEF StartEnroll, Idle, TypeOK
  <2>2. ASSUME NEW op \in Ops, StartAssess(r, op) PROVE cert # None
    BY <1>2, <2>2 DEF StartAssess, Idle, TypeOK
  <2>3. CASE LockMaterial(r) \/ TryLock(r)
    <3>1. At(r, "waitLock") \/ At(r, "tryLock")
      BY <2>3 DEF LockMaterial, TryLock
    <3>2. (\E l : Go(r, l)) \/ Exit(r, TRUE)
      BY <2>3 DEF LockMaterial, TryLock
    <3>3. \E l : Go(r, l)
      BY <1>2, <3>2, Ends
    <3>4. run'[r].usable = run[r].usable
      BY <3>3, Goes DEF Go
    <3> QED
      BY <1>2, <3>1, <3>4 DEF Remembered, RememberedOf, At
  <2>4. CASE ReadKey(r)
    <3>1. run' = [run EXCEPT ![r] = [Idle(FALSE) EXCEPT !.op = run[r].op, !.at = "tryLock",
                                                        !.usable = Verdict(r)]]
      BY <1>2, <2>4, Ends DEF ReadKey
    <3>2. Verdict(r)
      <4>1. run'[r].usable = Verdict(r)
        BY <3>1, Needs
      <4> QED
        BY <1>2, <4>1, Zenon
    <3> QED
      BY <2>4, <3>2 DEF ReadKey, Verdict, Usable, Remembered, RememberedOf
  <2>5. CASE Reassess(r)
    <3>1. Exit(r, TRUE) \/ run'[r].at = "issue"
      BY <2>5, Assesses DEF Reassess
    <3> QED
      BY <1>2, <3>1, Ends
  <2>6. CASE ChooseJwk(r)
    <3>1. CASE Exit(r, FALSE)
      BY <1>2, <3>1, Ends
    <3>2. CASE Prepared(r, cred)
      <4>1. JwkChosen(r, cred, "print")
        BY <3>2 DEF Prepared, JwkChosen
      <4> QED
        BY <1>2, <4>1, ChoosesJwk
    <3>3. ASSUME NEW j \in Jwk, NEW l \in {"placeJwk", "removeJwk"}, JwkChosen(r, j, l) PROVE FALSE
      BY <1>2, <3>3, ChoosesJwk
    <3>4. Exit(r, FALSE) \/ Prepared(r, cred)
          \/ \E j \in Jwk : JwkChosen(r, j, IF cred = None THEN "placeJwk" ELSE "removeJwk")
      BY <2>6 DEF ChooseJwk, JwkChosen
    <3> QED
      BY <3>1, <3>2, <3>3, <3>4
  <2>7. CASE RemoveJwk(r)
    BY <1>2, <2>7, Goes DEF RemoveJwk, Go
  <2>8. CASE PlaceJwk(r)
    <3>1. JwkChosen(r, run[r].jwk, "print")
      BY <2>8 DEF PlaceJwk, Prepared, JwkChosen
    <3> QED
      BY <1>2, <3>1, ChoosesJwk
  <2>9. CASE \E ok : Exit(r, ok)
    BY <1>2, <2>9, Ends
  <2>10. CASE \/ LockTimesOut(r) \/ PrintRequest(r) \/ EnrollFails(r) \/ AssessFails(r)
              \/ ReassessFails(r) \/ ProbeFails(r) \/ IssueFails(r) \/ SignFails(r)
              \/ ValidateFails(r) \/ PublishFails(r) \/ RunAfterRenew(r) \/ AfterRenewFails(r)
              \/ Kill(r)
    BY <2>9, <2>10
       DEF LockTimesOut, PrintRequest, EnrollFails, AssessFails, ReassessFails, ProbeFails,
           IssueFails, SignFails, ValidateFails, PublishFails, RunAfterRenew, AfterRenewFails,
           Kill, Fail
  <2> QED
    BY <2>1, <2>2, <2>3, <2>4, <2>5, <2>6, <2>7, <2>8, <2>10 DEF QuietStep
<1> QED
  BY <1>1, <1>2 DEF RememberedOf, At

\* While the certificate stays, or a whole one takes its place, what the other runs
\* remember stays true.
LEMMA RememberedKept ==
  ASSUME Remembered, NEW r \in Run, Others(r), RememberedOf(r)',
         cert' = cert \/ (cert' # None /\ cert'.whole)
  PROVE  Remembered'
  BY DEF Remembered, RememberedOf, Others, At

\* A certificate that was found there stays there after every step.
LEMMA RememberedNext == TypeOK /\ PairInv /\ Vouched /\ Remembered /\ [Next]_vars => Remembered'
<1> SUFFICES ASSUME TypeOK, PairInv, Vouched, Remembered, [Next]_vars PROVE Remembered'
  OBVIOUS
<1>1. ASSUME NEW r \in Run, QuietStep(r) PROVE Remembered'
  BY <1>1, QuietSteps, RememberedQuietly, RememberedKept DEF Quietly
<1>2. ASSUME NEW r \in Run, ReadCert(r) PROVE Remembered'
  <2>1. run'[r].at = "readKey" /\ run'[r].chain = cert /\ cert' = cert /\ Others(r)
    BY <1>2, Reads DEF ReadCert, fileVars
  <2>2. RememberedOf(r)'
    BY <2>1 DEF RememberedOf, At
  <2> QED
    BY <2>1, <2>2, RememberedKept
<1>3. ASSUME NEW r \in Run, Others(r), cert' = cert \/ (cert' # None /\ cert'.whole),
             run'[r].at \notin {"readKey", "waitLock", "tryLock", "reassess"}
      PROVE  Remembered'
  <2>1. RememberedOf(r)'
    BY <1>3 DEF RememberedOf, At
  <2> QED
    BY <1>3, <2>1, RememberedKept
<1>4. ASSUME NEW r \in Run, ChooseKey(r) PROVE Remembered'
  <2>1. PICK k : run' = [run EXCEPT ![r].key = k, ![r].at = "chooseJwk"]
    BY <1>4 DEF ChooseKey
  <2>2. run'[r].at = "chooseJwk" /\ Others(r) /\ cert' = cert
    BY <1>4, <2>1, ChoosesKey DEF ChooseKey
  <2> QED
    BY <1>3, <2>2
<1>5. ASSUME NEW r \in Run, CreateCsr(r) PROVE Remembered'
  <2>1. run'[r].at = "sign" /\ Others(r) /\ cert' = cert
    BY <1>5, Asks DEF CreateCsr, fileVars
  <2> QED
    BY <1>3, <2>1
<1>6. ASSUME NEW r \in Run, Sign(r) PROVE Remembered'
  <2>1. run'[r].at = "validate" /\ Others(r) /\ cert' = cert
    BY <1>6, Receives DEF Sign, fileVars
  <2> QED
    BY <1>3, <2>1
<1>7. ASSUME NEW r \in Run, Validate(r) \/ Publish(r) PROVE Remembered'
  <2>1. PICK l \in {"moveKey", "moveCert", "syncDir", "hook"} : Go(r, l)
    BY <1>7 DEF Validate, Publish
  <2>2. run'[r].at = l /\ Others(r)
    BY <2>1, Goes DEF Go
  <2>3. cert' = cert \/ (At(r, "moveCert") /\ cert' = run[r].cand)
    BY <1>7 DEF Validate, Publish, fileVars
  <2>4. At(r, "moveCert") => run[r].cand \in Cert /\ run[r].cand.whole
    BY DEF PairInv, Candidate, Vouched, VouchedOf, At
  <2>5. cert' = cert \/ (cert' # None /\ cert'.whole)
    BY <2>3, <2>4, X509LifecycleAssumption DEF X509LifecycleAssumption
  <2> QED
    BY <1>3, <2>2, <2>5
<1>8. CASE Environment
  <2>1. UNCHANGED <<cert, run>>
    BY <1>8
       DEF Environment, Approve, Revoke, DistributePolicy, Tick, LoseCredential, fileVars,
           runVars
  <2> QED
    BY <2>1 DEF Remembered, RememberedOf, At
<1>9. CASE UNCHANGED vars
  BY <1>9 DEF Remembered, RememberedOf, At, vars, fileVars, runVars
<1> QED
  BY <1>1, <1>2, <1>4, <1>5, <1>6, <1>7, <1>8, <1>9
     DEF Next, RunStep, EnrollStep, LockStep, AssessStep, RenewStep, QuietStep

\* What a renewal under the lock that exits 0 leaves.
Works(r) ==
  \/ Usable(cert', key', AssessedAt(r))
  \/ ForgivenUnassessed(r) /\ cert' # None /\ cert'.whole /\ (Paired' \/ torn')

\* A step that ends a locked renewal with success leaves it.
LEMMA SuccessStep ==
  ASSUME TypeOK, PairInv, Vouched, Remembered, [Next]_vars, NEW r \in Run,
         run[r].at \in RenewLocked, run'[r].at = "idle", run'[r].ok
  PROVE  Works(r)
<1>1. ASSUME NEW s \in Run, Others(s) PROVE s = r
  BY <1>1 DEF Others, RenewLocked
<1>2. ASSUME UNCHANGED <<key, cert>>, Usable(cert, key, AssessedAt(r)) PROVE Works(r)
  BY <1>2 DEF Usable, Works
<1>3. ASSUME NEW s \in Run, QuietStep(s)
      PROVE  Works(r)
  <2>1. s = r
    BY <1>1, <1>3, QuietSteps DEF Quietly
  <2>2. \/ ProbeFails(r) \/ IssueFails(r) \/ SignFails(r) \/ ValidateFails(r)
        \/ PublishFails(r) \/ AfterRenewFails(r) \/ Kill(r)
        \/ RunAfterRenew(r) \/ Reassess(r) \/ (ReassessFails(r) /\ At(r, "reassess"))
    <3>1. ~StartEnroll(r) /\ ~\E op \in Ops : StartAssess(r, op)
      BY DEF StartEnroll, StartAssess, At, RenewLocked
    <3>2. ~LockMaterial(r) /\ ~LockTimesOut(r)
      BY DEF LockMaterial, LockTimesOut, At, RenewLocked
    <3>3. ~ChooseJwk(r) /\ ~RemoveJwk(r) /\ ~PlaceJwk(r) /\ ~PrintRequest(r) /\ ~EnrollFails(r)
      BY DEF ChooseJwk, RemoveJwk, PlaceJwk, PrintRequest, EnrollFails, Enrolling, At, RenewLocked
    <3>4. ~ReadKey(r) /\ ~AssessFails(r) /\ ~TryLock(r) /\ (ReassessFails(r) => At(r, "reassess"))
      BY DEF ReadKey, AssessFails, TryLock, ReassessFails, At, RenewLocked
    <3> QED
      BY <1>3, <2>1, <3>1, <3>2, <3>3, <3>4 DEF QuietStep
  <2>3. CASE ProbeFails(r) \/ IssueFails(r) \/ SignFails(r) \/ ValidateFails(r)
    <3>1. run[r].at \in {"issue", "sign", "validate"} /\ UNCHANGED <<key, cert>>
      BY <2>3 DEF ProbeFails, IssueFails, SignFails, ValidateFails, At, fileVars
    <3>2. PICK kind \in {"Refused", "Unavailable"} : Fail(r, kind, run[r].usable)
      BY <2>3 DEF ProbeFails, IssueFails, SignFails, ValidateFails
    <3>3. Usable(cert, key, AssessedAt(r))
      BY <3>1, <3>2, ToleratedWorks DEF AssessedAt, At
    <3> QED
      BY <1>2, <3>1, <3>3
  <2>4. CASE PublishFails(r) \/ AfterRenewFails(r) \/ Kill(r)
    <3>1. Exit(r, FALSE) \/ \E kind, usable : (Fail(r, kind, usable) /\ ~Tolerated(kind, usable))
      BY <2>4 DEF PublishFails, AfterRenewFails, Kill, Tolerated
    <3>2. ASSUME NEW kind, NEW usable, Fail(r, kind, usable), ~Tolerated(kind, usable) PROVE ~run'[r].ok
      BY <3>2, Ends DEF Fail
    <3>3. ASSUME Exit(r, FALSE) PROVE ~run'[r].ok
      BY <3>3, Ends
    <3> QED
      BY <3>1, <3>2, <3>3
  <2>5. CASE RunAfterRenew(r)
    BY <1>2, <2>5 DEF RunAfterRenew, At, fileVars, Vouched, VouchedOf, AssessedAt
  <2>6. CASE Reassess(r)
    <3>1. Exit(r, TRUE) /\ ~RenewalNeeded(Usable(cert, key, now), pending # None, cert)
      BY <2>6, Assesses DEF Reassess
    <3> QED
      BY <1>2, <2>6, <3>1 DEF Reassess, RenewalNeeded, AssessedAt, fileVars
  <2>7. CASE ReassessFails(r) /\ At(r, "reassess")
    <3>1. UNCHANGED <<key, cert, torn>> /\ "error" \in Faults /\ Fail(r, "Refused", run[r].usable)
      BY <2>7 DEF ReassessFails, fileVars
    <3>2. run[r].op = "cron" /\ run[r].usable
      BY <3>1, Ends DEF Fail, Tolerated
    <3>3. cert # None /\ cert.whole
      BY <2>7, <3>2 DEF Remembered, RememberedOf, At
    <3>4. ~\E other \in Run : At(other, "moveCert")
      BY <2>7, OneLocked DEF At, Locked, RenewLocked
    <3>5. Paired \/ torn
      BY <3>3, <3>4 DEF PairInv, PairPartedOnlyByACut, Paired
    <3> QED
      BY <2>7, <3>1, <3>2, <3>3, <3>5 DEF Works, ForgivenUnassessed, Paired
  <2> QED
    BY <2>2, <2>3, <2>4, <2>5, <2>6, <2>7
<1>4. ASSUME NEW s \in Run, Others(s), run'[s].at # "idle" PROVE FALSE
  BY <1>1, <1>4
<1>5. ASSUME NEW s \in Run, ReadCert(s) \/ CreateCsr(s) \/ Sign(s) PROVE FALSE
  <2>1. CASE ReadCert(s)
    BY <1>4, <2>1, Reads DEF ReadCert
  <2>2. CASE CreateCsr(s)
    BY <1>4, <2>2, Asks DEF CreateCsr
  <2>3. CASE Sign(s)
    BY <1>4, <2>3, Receives DEF Sign
  <2> QED
    BY <1>5, <2>1, <2>2, <2>3
<1>6. ASSUME NEW s \in Run, ChooseKey(s) PROVE FALSE
  <2>1. PICK k : run' = [run EXCEPT ![s].key = k, ![s].at = "chooseJwk"]
    BY <1>6 DEF ChooseKey
  <2> QED
    BY <1>4, <2>1, ChoosesKey
<1>7. ASSUME NEW s \in Run, Validate(s) \/ Publish(s) PROVE FALSE
  <2>1. PICK l \in {"moveKey", "moveCert", "syncDir", "hook"} : Go(s, l)
    BY <1>7 DEF Validate, Publish
  <2>2. run'[s].at = l /\ Others(s)
    BY <2>1, Goes DEF Go
  <2> QED
    BY <1>4, <2>2
<1>8. ~Environment /\ ~UNCHANGED vars
  BY
     DEF Environment, Approve, Revoke, DistributePolicy, Tick, LoseCredential, vars, runVars,
         RenewLocked
<1> QED
  BY <1>3, <1>5, <1>6, <1>7, <1>8
     DEF Next, RunStep, EnrollStep, LockStep, AssessStep, RenewStep, QuietStep

\* Nothing is live or found at the start.
LEMMA InitRemembered == Init => Remembered
<1> SUFFICES ASSUME Init PROVE Remembered
  OBVIOUS
<1>1. \A r \in Run : run[r].at = "idle"
  BY DEF Init, Idle
<1> QED
  BY <1>1 DEF Init, Remembered, RememberedOf, At

\* A run of renew that took the lock and exits 0 leaves a pair that worked when it
\* was last assessed under the lock; where --if-reachable forgives a failure of that
\* assessment itself, a whole certificate, for the live key unless publishing was cut
\* (RenewalFailure::tolerated, renew, publish).
THEOREM SuccessWorks == Spec => LockedSuccessWorks
<1>1. Spec => []PairInv
  BY InitInvariants, TypeCorrect, PairNext, PTL DEF Spec
<1>2. Spec => []Vouched
  BY <1>1, InitVouched, TypeCorrect, VouchedNext, PTL DEF Spec
<1>3. Spec => []Remembered
  BY <1>1, <1>2, InitRemembered, TypeCorrect, RememberedNext, PTL DEF Spec
<1>4. TypeOK /\ PairInv /\ Vouched /\ Remembered /\ [Next]_vars
      => [\A r \in Run : run[r].at \in RenewLocked /\ run'[r].at = "idle" /\ run'[r].ok
            => \/ Usable(cert', key', AssessedAt(r))
               \/ ForgivenUnassessed(r) /\ cert' # None /\ cert'.whole /\ (Paired' \/ torn')]_vars
  BY SuccessStep DEF Works
<1> QED
  BY <1>1, <1>2, <1>3, <1>4, TypeCorrect, PTL DEF Spec, LockedSuccessWorks

\* A new certificate whose hook is owed has a run that owes it.
LEMMA ServiceNext == TypeOK /\ StaleServiceReported /\ [Next]_vars => StaleServiceReported'
<1> SUFFICES ASSUME TypeOK, StaleServiceReported, [Next]_vars PROVE StaleServiceReported'
  OBVIOUS
<1>1. ASSUME NEW r \in Run, Others(r), service' = "owed" => service = "owed",
             ~At(r, "syncDir"), ~At(r, "hook")
      PROVE  StaleServiceReported'
  BY <1>1 DEF StaleServiceReported, Others, At
<1>2. ASSUME NEW r \in Run, QuietStep(r) PROVE StaleServiceReported'
  <2>1. Quietly(r)
    BY <1>2, QuietSteps
  <2> QED
    BY <2>1 DEF Quietly, StaleServiceReported, Others, At
<1>3. ASSUME NEW r \in Run, ReadCert(r) \/ CreateCsr(r) \/ Sign(r) PROVE StaleServiceReported'
  <2>1. run[r].at \in {"readCert", "issue", "sign"} /\ service' = service
    BY <1>3 DEF ReadCert, CreateCsr, Sign, At, histVars
  <2>2. CASE ReadCert(r)
    BY <1>1, <2>1, <2>2, Reads DEF ReadCert, At
  <2>3. CASE CreateCsr(r)
    BY <1>1, <2>1, <2>3, Asks DEF CreateCsr, At
  <2>4. CASE Sign(r)
    <3>1. Others(r)
      BY <2>4, Receives DEF Sign
    <3> QED
      BY <1>1, <2>1, <3>1 DEF At
  <2> QED
    BY <1>3, <2>2, <2>3, <2>4
<1>4. ASSUME NEW r \in Run, ChooseKey(r) PROVE StaleServiceReported'
  <2>1. PICK k : run' = [run EXCEPT ![r].key = k, ![r].at = "chooseJwk"]
    BY <1>4 DEF ChooseKey
  <2>2. Others(r)
    BY <2>1, ChoosesKey
  <2> QED
    BY <1>1, <1>4, <2>2 DEF ChooseKey, At, histVars
<1>5. ASSUME NEW r \in Run, Validate(r) PROVE StaleServiceReported'
  <2>1. Others(r)
    BY <1>5, Goes DEF Validate, Go
  <2> QED
    BY <1>1, <1>5, <2>1 DEF Validate, At, histVars
<1>6. ASSUME NEW r \in Run, Publish(r) PROVE StaleServiceReported'
  <2>1. CASE At(r, "moveKey")
    <3>1. Others(r) /\ service' = service
      BY <1>6, <2>1, Goes DEF Publish, Go, At, histVars
    <3> QED
      BY <1>1, <2>1, <3>1 DEF At
  <2>2. CASE At(r, "moveCert") \/ At(r, "syncDir")
    <3>1. run'[r].at \in {"syncDir", "hook"}
      BY <1>6, <2>2, Goes DEF Publish, Go, At
    <3> QED
      BY <3>1 DEF StaleServiceReported, At
  <2> QED
    BY <1>6, <2>1, <2>2 DEF Publish
<1>7. CASE Environment \/ UNCHANGED vars
  <2>1. UNCHANGED <<run, service>>
    BY <1>7
       DEF Environment, Approve, Revoke, DistributePolicy, Tick, LoseCredential, vars, runVars,
           histVars
  <2> QED
    BY <2>1 DEF StaleServiceReported, At
<1> QED
  BY <1>2, <1>3, <1>4, <1>5, <1>6, <1>7
     DEF Next, RunStep, EnrollStep, LockStep, AssessStep, RenewStep, QuietStep

\* A service stays on the old certificate only where a run that ended has said so
\* (run_after_renew, RenewalFailure::tolerated).
THEOREM ServiceReported == Spec => []StaleServiceReported
<1>1. Init => StaleServiceReported
  BY DEF Init, StaleServiceReported
<1> QED
  BY <1>1, TypeCorrect, ServiceNext, PTL DEF Spec
=============================================================================
