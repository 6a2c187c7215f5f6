--------------------------- MODULE X509Lifecycle ---------------------------
(***************************************************************************)
(* One declared X.509 certificate on the host that holds it: x509 enroll,  *)
(* x509 renew and x509 status run as separate processes over the same      *)
(* files, the CA pins at most one enrolled pair of keys for it, and        *)
(* requests and tombstones travel between the two by hand.                 *)
(* Commands change the files only under the material lock; the first       *)
(* assessment of renew, and status, read them without it.                  *)
(***************************************************************************)
EXTENDS Integers

CONSTANTS
  Run,        \* invocations of grafhome-ca on this host that may overlap
  Ops,        \* what they may be: "enroll", "renew", "cron", "status"
  Key, Jwk,   \* certificate keys and renewal JWKs that step can generate
  TTL,        \* declared lifetime
  MaxTime,    \* bound on the clock
  MaxLosses,  \* bound on restores of the host from a backup without its JWK
  Faults,     \* "error": a local step fails for no modelled reason; "kill": a run dies
  None, Partial

VARIABLES
  key, pending,  \* key.pem and key.pem.pending, or None
  cert,          \* cert.pem, or None
  cred,          \* the renewal credential: its JWK, None, or Partial (some file gone)
  holder,        \* invocation holding the material lock, or None
  run,           \* run[r]: what r does and what it has read
  hostLedger,    \* tombstones in the policy this host has
  pinned,        \* the pair of keys pinned by the CA's provisioner, or None
  tombstones,    \* the CA's X.509 tombstones
  requests,      \* requests printed on this host; any may be pasted at the CA
  made,          \* keys and JWKs generated so far
  now,           \* the clock
  service,       \* whether the service has the live certificate: see Publish
  torn,          \* history: publishing was cut between its two renames
  losses         \* number of restores so far

fileVars == <<key, pending, cert, cred>>
runVars  == <<holder, run>>
caVars   == <<pinned, tombstones>>
histVars == <<service, torn>>
vars == <<fileVars, runVars, hostLedger, caVars, requests, made, now, histVars, losses>>

-----------------------------------------------------------------------------

Pair == [key : Key, jwk : Jwk]

\* A certificate: whose key, until when, and whether it carries its intermediate
\* and exactly the declared names and usage, under the pinned root.
Cert == [key : Key, end : Int, whole : BOOLEAN]

\* "cron" is renew --if-enrolled --if-reachable, as cron and boot units run it.
Renewals == {"renew", "cron"}

ASSUME X509LifecycleAssumption ==
  /\ Ops \subseteq Renewals \union {"enroll", "status"}
  /\ TTL \in Nat \ {0}
  /\ MaxTime \in Nat
  /\ MaxLosses \in Nat
  /\ Faults \subseteq {"error", "kill"}
  /\ None \notin Key \union Jwk \union Cert \union Pair \union Run
  /\ Partial \notin Jwk \union {None}

Idle(ok) ==
  [op |-> "none", at |-> "idle", ok |-> ok, seen |-> {}, t |-> 0, pend |-> FALSE, chain |-> None,
   usable |-> FALSE, key |-> None, jwk |-> None, cand |-> None]

At(r, label) == run[r].at = label

Go(r, label) == run' = [run EXCEPT ![r].at = label]

KeyRevoked(led, k) == \E e \in led : e.key = k
JwkRevoked(led, j) == \E e \in led : e.jwk = j

\* The key an enrollment covers.
EnrolledKey == IF pending # None THEN pending ELSE key

HasMaterial == key # None \/ pending # None \/ cert # None \/ cred # None

\* A handshake with this certificate and this key works at time t.
Usable(chain, k, t) ==
  /\ chain # None
  /\ chain.key = k
  /\ chain.whole
  /\ chain.end > t

RenewalDue(end)  == (end - now) * 3 <= TTL * 2
AlertDue(end, t) == (end - t) * 3 < TTL

\* Mutant: only the dates and a staged key make a renewal necessary.
RenewalNeededByDate(usable, pend, chain) ==
  pend \/ chain = None \/ (chain # None /\ RenewalDue(chain.end))

RenewalNeeded(usable, pend, chain) == ~usable \/ pend \/ RenewalDue(chain.end)

-----------------------------------------------------------------------------

Init ==
  /\ key = None /\ pending = None /\ cert = None /\ cred = None
  /\ holder = None
  /\ run = [r \in Run |-> Idle(FALSE)]
  /\ hostLedger = {} /\ tombstones = {} /\ requests = {} /\ made = {}
  /\ pinned = None
  /\ now = 0
  /\ service = "current" /\ torn = FALSE
  /\ losses = 0

\* Mutant: the lock file is left open.
ExitKeepingLock(r, ok) == run' = [run EXCEPT ![r] = Idle(ok)] /\ UNCHANGED holder

\* The process ends and the kernel releases its lock.
Exit(r, ok) ==
  /\ run' = [run EXCEPT ![r] = Idle(ok)]
  /\ holder' = IF holder = r THEN None ELSE holder

\* Mutant: a failed hook is forgiven while the certificate works.
ToleratedWhileUsable(kind, usable) == usable

Tolerated(kind, usable) == usable /\ kind # "AfterRenew"

\* A run that ends between publishing and its hook leaves the service on the old
\* certificate; its exit status says so or does not.
Disowned(r, ok) == IF run[r].at \in {"syncDir", "hook"} /\ ~ok THEN "told" ELSE service

\* A renewal fails; --if-reachable may let it exit 0 all the same.
Fail(r, kind, usable) ==
  LET ok == run[r].op = "cron" /\ Tolerated(kind, usable) IN
    /\ Exit(r, ok)
    /\ service' = Disowned(r, ok)

-----------------------------------------------------------------------------
(***************************************************************************)
(* The material lock, for no longer than the lock timeout.                 *)
(***************************************************************************)

\* Mutant: an enrollment goes on without the lock.
LockRenewalsOnly(r) ==
  /\ At(r, "waitLock")
  /\ run[r].op = "enroll" \/ holder = None
  /\ holder' = IF run[r].op = "enroll" THEN holder ELSE r
  /\ Go(r, IF run[r].op = "enroll" THEN "chooseKey" ELSE "reassess")
  /\ UNCHANGED <<fileVars, hostLedger, caVars, requests, made, now, histVars, losses>>

LockMaterial(r) ==
  /\ At(r, "waitLock")
  /\ holder = None
  /\ holder' = r
  /\ Go(r, IF run[r].op = "enroll" THEN "chooseKey" ELSE "reassess")
  /\ UNCHANGED <<fileVars, hostLedger, caVars, requests, made, now, histVars, losses>>

LockTimesOut(r) ==
  /\ At(r, "waitLock")
  /\ holder # None
  /\ Exit(r, FALSE)
  /\ UNCHANGED <<fileVars, hostLedger, caVars, requests, made, now, histVars, losses>>

-----------------------------------------------------------------------------
(***************************************************************************)
(* x509 enroll.  The policy is loaded before the lock is asked for.        *)
(***************************************************************************)
StartEnroll(r) ==
  /\ At(r, "idle")
  /\ "enroll" \in Ops
  /\ run' = [run EXCEPT ![r] = [Idle(FALSE) EXCEPT !.op = "enroll", !.at = "waitLock", !.seen = hostLedger]]
  /\ UNCHANGED <<fileVars, holder, hostLedger, caVars, requests, made, now, histVars, losses>>

\* Mutant: the replacement key is written over the live one.
ChooseKeyInPlace(r) ==
  /\ At(r, "chooseKey")
  /\ \/ /\ EnrolledKey # None /\ ~KeyRevoked(run[r].seen, EnrolledKey)
        /\ run' = [run EXCEPT ![r].key = EnrolledKey, ![r].at = "chooseJwk"]
        /\ UNCHANGED <<key, made>>
     \/ /\ EnrolledKey # None => KeyRevoked(run[r].seen, EnrolledKey)
        /\ \E k \in Key \ made :
             /\ run' = [run EXCEPT ![r].key = k, ![r].at = "chooseJwk"]
             /\ made' = made \union {k}
             /\ key' = k
  /\ UNCHANGED <<pending, cert, cred, holder, hostLedger, caVars, requests, now, histVars, losses>>

\* Reuse the enrolled key, create the first one, or stage a replacement for a
\* key that the policy this run loaded has tombstoned.
ChooseKey(r) ==
  /\ At(r, "chooseKey")
  /\ \/ /\ EnrolledKey # None /\ ~KeyRevoked(run[r].seen, EnrolledKey)
        /\ run' = [run EXCEPT ![r].key = EnrolledKey, ![r].at = "chooseJwk"]
        /\ UNCHANGED <<key, pending, made>>
     \/ /\ EnrolledKey # None => KeyRevoked(run[r].seen, EnrolledKey)
        /\ \E k \in Key \ made :
             /\ run' = [run EXCEPT ![r].key = k, ![r].at = "chooseJwk"]
             /\ made' = made \union {k}
             /\ IF EnrolledKey = None
                  THEN key' = k /\ UNCHANGED pending
                  ELSE pending' = k /\ UNCHANGED key
  /\ UNCHANGED <<cert, cred, holder, hostLedger, caVars, requests, now, histVars, losses>>

\* Returning from prepare_enrollment releases the lock.
Prepared(r, j) ==
  /\ run' = [run EXCEPT ![r].jwk = j, ![r].at = "print"]
  /\ holder' = IF holder = r THEN None ELSE holder

\* Reuse a complete credential that is not tombstoned, or generate a new JWK in a
\* staging directory; a partial credential is refused.
ChooseJwk(r) ==
  /\ At(r, "chooseJwk")
  /\ \/ /\ cred \in Jwk /\ ~JwkRevoked(run[r].seen, cred)
        /\ Prepared(r, cred)
        /\ UNCHANGED made
     \/ /\ cred = None \/ (cred \in Jwk /\ JwkRevoked(run[r].seen, cred))
        /\ \E j \in Jwk \ made :
             /\ run' = [run EXCEPT ![r].jwk = j, ![r].at = IF cred = None THEN "placeJwk" ELSE "removeJwk"]
             /\ made' = made \union {j}
        /\ UNCHANGED holder
     \/ /\ cred = Partial
        /\ Exit(r, FALSE)
        /\ UNCHANGED made
  /\ UNCHANGED <<fileVars, hostLedger, caVars, requests, now, histVars, losses>>

\* remove_dir_all unlinks the three files of the old credential one by one.
RemoveJwk(r) ==
  /\ \/ At(r, "removeJwk") /\ cred' = Partial /\ Go(r, "removing")
     \/ At(r, "removing") /\ cred' = None /\ Go(r, "placeJwk")
  /\ UNCHANGED <<key, pending, cert, holder, hostLedger, caVars, requests, made, now, histVars, losses>>

PlaceJwk(r) ==
  /\ At(r, "placeJwk")
  /\ cred' = run[r].jwk
  /\ Prepared(r, run[r].jwk)
  /\ UNCHANGED <<key, pending, cert, hostLedger, caVars, requests, made, now, histVars, losses>>

PrintRequest(r) ==
  /\ At(r, "print")
  /\ requests' = requests \union {[key |-> run[r].key, jwk |-> run[r].jwk]}
  /\ Exit(r, TRUE)
  /\ UNCHANGED <<fileVars, hostLedger, caVars, made, now, histVars, losses>>

Enrolling == {"chooseKey", "chooseJwk", "removeJwk", "removing", "placeJwk"}

\* key.pem or the credential cannot be written: what was done so far stays.
EnrollFails(r) ==
  /\ "error" \in Faults
  /\ run[r].at \in Enrolling
  /\ Exit(r, FALSE)
  /\ UNCHANGED <<fileVars, hostLedger, caVars, requests, made, now, histVars, losses>>

-----------------------------------------------------------------------------
(***************************************************************************)
(* The assessment without the lock, of status and at the start of renew:   *)
(* first whether a key is pending, then cert.pem, then key.pem.            *)
(***************************************************************************)
StartAssess(r, op) ==
  /\ At(r, "idle")
  /\ op \in Ops \ {"enroll"}
  /\ op \in Renewals => HasMaterial
  /\ run' = [run EXCEPT ![r] = [Idle(FALSE) EXCEPT !.op = op, !.at = "readCert", !.t = now,
                                                   !.pend = (pending # None)]]
  /\ UNCHANGED <<fileVars, holder, hostLedger, caVars, requests, made, now, histVars, losses>>

ReadCert(r) ==
  /\ At(r, "readCert")
  /\ run' = [run EXCEPT ![r].chain = cert, ![r].at = "readKey"]
  /\ UNCHANGED <<fileVars, holder, hostLedger, caVars, requests, made, now, histVars, losses>>

Verdict(r) == Usable(run[r].chain, key, run[r].t)

\* renew ends at once if nothing is needed; status reports and ends.
ReadKey(r) ==
  /\ At(r, "readKey")
  /\ LET usable == Verdict(r) IN
       IF run[r].op = "status"
         THEN Exit(r, usable /\ ~AlertDue(run[r].chain.end, run[r].t))
         ELSE IF RenewalNeeded(usable, run[r].pend, run[r].chain)
                THEN /\ run' = [run EXCEPT ![r] = [Idle(FALSE) EXCEPT !.op = run[r].op, !.at = "tryLock",
                                                                      !.usable = usable]]
                     /\ UNCHANGED holder
                ELSE Exit(r, TRUE)
  /\ UNCHANGED <<fileVars, hostLedger, caVars, requests, made, now, histVars, losses>>

\* step cannot be run, or the key cannot be read.
AssessFails(r) ==
  /\ "error" \in Faults
  /\ At(r, "readCert") \/ At(r, "readKey")
  /\ Fail(r, "Refused", FALSE)
  /\ UNCHANGED <<fileVars, hostLedger, caVars, requests, made, now, torn, losses>>

-----------------------------------------------------------------------------
(***************************************************************************)
(* x509 renew: lock, assess again, issue, publish, run the hook.           *)
(***************************************************************************)

\* A contended run skips while the certificate works, and waits otherwise.
TryLock(r) ==
  /\ At(r, "tryLock")
  /\ \/ holder = None /\ holder' = r /\ Go(r, "reassess")
     \/ holder # None /\ run[r].usable /\ Exit(r, TRUE)
     \/ holder # None /\ ~run[r].usable /\ Go(r, "waitLock") /\ UNCHANGED holder
  /\ UNCHANGED <<fileVars, hostLedger, caVars, requests, made, now, histVars, losses>>

\* Nobody else changes the files now, so this assessment is one step.
Reassess(r) ==
  /\ At(r, "reassess")
  /\ LET usable == Usable(cert, key, now) IN
       IF RenewalNeeded(usable, pending # None, cert)
         THEN /\ run' = [run EXCEPT ![r].usable = usable, ![r].t = now, ![r].at = "issue"]
              /\ UNCHANGED holder
         ELSE Exit(r, TRUE)
  /\ UNCHANGED <<fileVars, hostLedger, caVars, requests, made, now, histVars, losses>>

\* The lock file cannot be opened, or the second assessment fails.
ReassessFails(r) ==
  /\ "error" \in Faults
  /\ At(r, "tryLock") \/ At(r, "reassess")
  /\ Fail(r, "Refused", run[r].usable)
  /\ UNCHANGED <<fileVars, hostLedger, caVars, requests, made, now, torn, losses>>

ProbeFails(r) ==
  /\ At(r, "issue")
  /\ run[r].op = "cron"
  /\ Fail(r, "Unavailable", run[r].usable)
  /\ UNCHANGED <<fileVars, hostLedger, caVars, requests, made, now, torn, losses>>

\* A signing request for the enrolled key.  Of a partial credential the private JWK
\* and its password may be left, and nothing else is asked for here.
CreateCsr(r) ==
  /\ At(r, "issue")
  /\ EnrolledKey # None
  /\ cred # None
  /\ run' = [run EXCEPT ![r].key = EnrolledKey, ![r].at = "sign"]
  /\ UNCHANGED <<fileVars, holder, hostLedger, caVars, requests, made, now, histVars, losses>>

\* A key, JWK, password or root is missing, or step fails locally.
IssueFails(r) ==
  /\ At(r, "issue")
  /\ EnrolledKey = None \/ cred \notin Jwk \/ "error" \in Faults
  /\ Fail(r, "Refused", run[r].usable)
  /\ UNCHANGED <<fileVars, hostLedger, caVars, requests, made, now, torn, losses>>

\* What the pinned template issues, and what a CA that drifted could issue.
Candidates == [key : Key \intersect made, end : {now + TTL}, whole : BOOLEAN]

\* The token is accepted if the JWK is the provisioner's, the request if its key is pinned.
\* What is left of a partial credential is of no pinned JWK: see RemoveJwk, LoseCredential.
Sign(r) ==
  /\ At(r, "sign")
  /\ pinned = [key |-> run[r].key, jwk |-> cred]
  /\ \E c \in Candidates : run' = [run EXCEPT ![r].cand = c, ![r].at = "validate"]
  /\ UNCHANGED <<fileVars, holder, hostLedger, caVars, requests, made, now, histVars, losses>>

SignFails(r) ==
  /\ At(r, "sign")
  /\ Fail(r, "Unavailable", run[r].usable)
  /\ UNCHANGED <<fileVars, hostLedger, caVars, requests, made, now, torn, losses>>

Validate(r) ==
  /\ At(r, "validate")
  /\ Usable(run[r].cand, run[r].key, now)
  /\ Go(r, "moveKey")
  /\ UNCHANGED <<fileVars, holder, hostLedger, caVars, requests, made, now, histVars, losses>>

ValidateFails(r) ==
  /\ At(r, "validate")
  /\ ~Usable(run[r].cand, run[r].key, now) \/ "error" \in Faults
  /\ Fail(r, "Refused", run[r].usable)
  /\ UNCHANGED <<fileVars, hostLedger, caVars, requests, made, now, torn, losses>>

\* Mutant: the certificate is renamed before the key.
PublishCertFirst(r) ==
  /\ \/ /\ At(r, "moveKey")
        /\ cert' = run[r].cand
        /\ Go(r, "moveCert")
        /\ UNCHANGED <<key, pending, histVars>>
     \/ /\ At(r, "moveCert")
        /\ IF pending # None THEN key' = pending /\ pending' = None ELSE UNCHANGED <<key, pending>>
        /\ Go(r, "syncDir")
        /\ service' = "owed"
        /\ torn' = FALSE
        /\ UNCHANGED cert
  /\ UNCHANGED <<cred, holder, hostLedger, caVars, requests, made, now, losses>>

\* A staged key is renamed over the live one, and then the certificate.
Publish(r) ==
  /\ \/ /\ At(r, "moveKey")
        /\ IF pending # None THEN key' = pending /\ pending' = None ELSE UNCHANGED <<key, pending>>
        /\ Go(r, "moveCert")
        /\ UNCHANGED <<cert, histVars>>
     \/ /\ At(r, "moveCert")
        /\ cert' = run[r].cand
        /\ Go(r, "syncDir")
        /\ service' = "owed"
        /\ torn' = FALSE
        /\ UNCHANGED <<key, pending>>
     \/ /\ At(r, "syncDir")
        /\ Go(r, "hook")
        /\ UNCHANGED <<key, pending, cert, histVars>>
  /\ UNCHANGED <<cred, holder, hostLedger, caVars, requests, made, now, losses>>

Publishing == {"moveKey", "moveCert", "syncDir"}

\* Mutant: a failure to publish is reported like the others, vouching for the
\* certificate that was live before.
PublishFailsVouching(r) ==
  /\ run[r].at \in Publishing
  /\ Fail(r, "Refused", run[r].usable)
  /\ torn' = (torn \/ At(r, "moveCert"))
  /\ UNCHANGED <<fileVars, hostLedger, caVars, requests, made, now, losses>>

PublishFails(r) ==
  /\ "error" \in Faults
  /\ run[r].at \in Publishing
  /\ Fail(r, "Refused", FALSE)
  /\ torn' = (torn \/ At(r, "moveCert"))
  /\ UNCHANGED <<fileVars, hostLedger, caVars, requests, made, now, losses>>

RunAfterRenew(r) ==
  /\ At(r, "hook")
  /\ service' = "current"
  /\ Exit(r, TRUE)
  /\ UNCHANGED <<fileVars, hostLedger, caVars, requests, made, now, torn, losses>>

AfterRenewFails(r) ==
  /\ At(r, "hook")
  /\ Fail(r, "AfterRenew", run[r].usable)
  /\ UNCHANGED <<fileVars, hostLedger, caVars, requests, made, now, torn, losses>>

\* The process dies at any point.
Kill(r) ==
  /\ "kill" \in Faults
  /\ ~At(r, "idle")
  /\ Exit(r, FALSE)
  /\ torn' = (torn \/ At(r, "moveCert"))
  /\ service' = Disowned(r, FALSE)
  /\ UNCHANGED <<fileVars, hostLedger, caVars, requests, made, now, losses>>

-----------------------------------------------------------------------------
(***************************************************************************)
(* The CA, seen from the host (CaOrigin has its transactions), the policy  *)
(* that reaches the host, the clock and a restore from a backup.           *)
(***************************************************************************)

\* Neither half of the pair is tombstoned and no other enrollment is live.
Approve(q) ==
  /\ q \in requests
  /\ pinned = None
  /\ ~KeyRevoked(tombstones, q.key) /\ ~JwkRevoked(tombstones, q.jwk)
  /\ pinned' = q
  /\ UNCHANGED <<fileVars, runVars, hostLedger, tombstones, requests, made, now, histVars, losses>>

Revoke ==
  /\ pinned # None
  /\ tombstones' = tombstones \union {pinned}
  /\ pinned' = None
  /\ UNCHANGED <<fileVars, runVars, hostLedger, requests, made, now, histVars, losses>>

DistributePolicy ==
  /\ hostLedger # tombstones
  /\ hostLedger' = tombstones
  /\ UNCHANGED <<fileVars, runVars, caVars, requests, made, now, histVars, losses>>

Tick ==
  /\ now < MaxTime
  /\ now' = now + 1
  /\ UNCHANGED <<fileVars, runVars, hostLedger, caVars, requests, made, histVars, losses>>

\* A VM restored from a backup keeps its certificate and loses private JWK files.
LoseCredential ==
  /\ losses < MaxLosses
  /\ cred # None
  /\ \A r \in Run : At(r, "idle")
  /\ cred' \in {None, Partial}
  /\ losses' = losses + 1
  /\ UNCHANGED <<key, pending, cert, runVars, hostLedger, caVars, requests, made, now, histVars>>

-----------------------------------------------------------------------------

EnrollStep(r) ==
  ChooseKey(r) \/ ChooseJwk(r) \/ RemoveJwk(r) \/ PlaceJwk(r) \/ PrintRequest(r) \/ EnrollFails(r)

LockStep(r) == LockMaterial(r) \/ LockTimesOut(r)

AssessStep(r) == ReadCert(r) \/ ReadKey(r) \/ AssessFails(r)

RenewStep(r) ==
  \/ TryLock(r) \/ Reassess(r) \/ ReassessFails(r)
  \/ ProbeFails(r) \/ CreateCsr(r) \/ IssueFails(r)
  \/ Sign(r) \/ SignFails(r) \/ Validate(r) \/ ValidateFails(r)
  \/ Publish(r) \/ PublishFails(r) \/ RunAfterRenew(r) \/ AfterRenewFails(r)

RunStep(r) == EnrollStep(r) \/ LockStep(r) \/ AssessStep(r) \/ RenewStep(r)

Environment ==
  \/ \E q \in requests : Approve(q)
  \/ Revoke \/ DistributePolicy \/ Tick \/ LoseCredential

Next ==
  \/ \E r \in Run : \/ StartEnroll(r) \/ \E op \in Ops : StartAssess(r, op)
                    \/ RunStep(r) \/ Kill(r)
  \/ Environment

Spec == Init /\ [][Next]_vars
=============================================================================
