----------------------- MODULE X509LifecycleProperties -----------------------
(***************************************************************************)
(* What the X.509 commands of one host promise, and the fair specification *)
(* under which an approved enrollment ends in a working certificate.       *)
(***************************************************************************)
EXTENDS X509Lifecycle

RenewLocked == {"reassess", "issue", "sign", "validate", "moveKey", "moveCert", "syncDir", "hook"}

Locked == Enrolling \union RenewLocked

Labels == Locked \union {"idle", "waitLock", "print", "readCert", "readKey", "tryLock"}

RunRecord ==
  [op : {"none", "enroll", "renew", "cron", "status"}, at : Labels, ok : BOOLEAN, seen : SUBSET Pair,
   t : Int, pend : BOOLEAN, chain : Cert \union {None}, usable : BOOLEAN,
   key : Key \union {None}, jwk : Jwk \union {None}, cand : Cert \union {None}]

LockHeld == \A r \in Run : holder = r <=> run[r].at \in Locked

KeysChosen == \A r \in Run :
  /\ run[r].at \in {"chooseJwk", "removeJwk", "removing", "placeJwk", "print"} => run[r].key \in Key
  /\ run[r].at \in {"removeJwk", "removing", "placeJwk", "print"} => run[r].jwk \in Jwk

\* Every variable keeps its type, the lock is held by the one run that is between
\* taking and releasing it, and no request is printed before its keys are chosen:
\* the shape that prepare_enrollment and renew keep.
TypeOK ==
  /\ key \in Key \union {None}
  /\ pending \in Key \union {None}
  /\ cert \in Cert \union {None}
  /\ cred \in Jwk \union {None, Partial}
  /\ holder \in Run \union {None}
  /\ run \in [Run -> RunRecord]
  /\ LockHeld
  /\ KeysChosen
  /\ hostLedger \subseteq Pair
  /\ pinned \in Pair \union {None}
  /\ tombstones \subseteq Pair
  /\ requests \subseteq Pair
  /\ made \subseteq Key \union Jwk
  /\ now \in Nat
  /\ service \in {"current", "owed", "told"}
  /\ torn \in BOOLEAN
  /\ losses \in Nat

-----------------------------------------------------------------------------

Paired == cert # None /\ cert.key = key

(***************************************************************************)
(* The live certificate is for the live key, unless publishing is between  *)
(* its two renames or was cut there.  Enrollments and renewals that        *)
(* overlap, keys that are replaced while a renewal waits for its           *)
(* signature, and a CA that drifts never part the pair (issue, publish).   *)
(***************************************************************************)
PairPartedOnlyByACut ==
  cert # None /\ cert.key # key => torn \/ \E r \in Run : At(r, "moveCert")

(***************************************************************************)
(* An assessment made without the lock never calls a parted pair usable,   *)
(* although it reads cert.pem and key.pem at two moments and a renewal may *)
(* replace both in between: what `x509 status` and the skipping of a       *)
(* contended renewal rest on (assess, publish).                            *)
(***************************************************************************)
UnlockedVerdictSound == \A r \in Run : At(r, "readKey") /\ Verdict(r) => Paired

(***************************************************************************)
(* The pair of keys pinned by the CA is the pair this host holds, whatever *)
(* enrollments overlapped, from whatever policy they were made, and        *)
(* whichever printed request was approved; so the host of a live           *)
(* enrollment can always ask for its certificate (prepare_enrollment: "Two *)
(* racing runs could otherwise each print a request for a key the other    *)
(* replaced").                                                             *)
(***************************************************************************)
ApprovedMaterialHeld ==
  losses = 0 /\ pinned # None => EnrolledKey = pinned.key /\ cred = pinned.jwk

(***************************************************************************)
(* A run of renew that took the lock and exits 0 leaves a pair that worked *)
(* when it was last assessed under the lock, in spite of every failure it  *)
(* may have tolerated (RenewalFailure::tolerated, publish).  The exception *)
(* the code makes is stated too: when the second assessment itself fails,  *)
(* --if-reachable goes by the first one, made without the lock, and all    *)
(* that is certain is a whole certificate, for the live key unless a run   *)
(* was cut between its two renames (renew: refused(first.usable())).       *)
(***************************************************************************)
AssessedAt(r) == IF At(r, "reassess") THEN now ELSE run[r].t

ForgivenUnassessed(r) ==
  "error" \in Faults /\ At(r, "reassess") /\ run[r].op = "cron" /\ run[r].usable

LockedSuccessWorks ==
  [][\A r \in Run :
       run[r].at \in RenewLocked /\ run'[r].at = "idle" /\ run'[r].ok
       => \/ Usable(cert', key', AssessedAt(r))
          \/ ForgivenUnassessed(r) /\ cert' # None /\ cert'.whole /\ (Paired' \/ torn')]_vars

(***************************************************************************)
(* A service never stays on the old certificate unnoticed: once a new one  *)
(* is live, the hook runs, or the run that published it dies or exits with *)
(* an error, --if-reachable or not (run_after_renew, tolerated).           *)
(***************************************************************************)
StaleServiceReported == service = "owed" => \E r \in Run : At(r, "syncDir") \/ At(r, "hook")

-----------------------------------------------------------------------------
(***************************************************************************)
(* cron starts a renewal every five minutes, a command that runs goes on   *)
(* until it ends, and a CA that keeps accepting the host's keys answers    *)
(* sooner or later with what its template says.                            *)
(***************************************************************************)
SignWell(r) == Sign(r) /\ run'[r].cand = [key |-> run[r].key, end |-> now + TTL, whole |-> TRUE]

Fairness ==
  \A r \in Run :
    /\ WF_vars(RunStep(r))
    /\ WF_vars(StartAssess(r, "cron"))
    /\ SF_vars(TryLock(r) /\ holder' = r)
    /\ SF_vars(CreateCsr(r)) /\ SF_vars(SignWell(r)) /\ SF_vars(Validate(r))
    /\ SF_vars(Publish(r))

FairSpec == Spec /\ Fairness

\* Operators and crashes leave the host alone from some time on.
Settled == <>[][\A r \in Run : ~StartEnroll(r) /\ ~Kill(r)]_vars

\* Then, if the CA goes on accepting one enrollment, the host ends up with a
\* certificate that works, whatever happened before: "the next run repairs the
\* pair" (README, issue).
EnrollmentEndsInACertificate ==
  Settled /\ <>[](pinned # None) => <>[]Usable(cert, key, now)
=============================================================================
