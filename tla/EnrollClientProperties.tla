------------------------ MODULE EnrollClientProperties ------------------------
(***************************************************************************)
(* What enrollment and renewal owe the user or host they serve.            *)
(***************************************************************************)
EXTENDS EnrollClient

Labels == {"idle", "identity", "remove", "generate", "jwk", "seal", "store", "publish",
           "await", "issue", "write", "prove", "proved", "finish", "renew", "renewed"}

Local == [op : {"enroll", "renew", None}, pw : Pw \union {None}, file : BOOLEAN, save : BOOLEAN,
          req : [key : Key \union {None}, jwk : Jwk \union {None}] \union {None},
          grant : Grant \union {None}, new : Cert \union {None},
          left : SUBSET {"priv", "pub", "cert"}, overtaken : BOOLEAN, overEndless : BOOLEAN]

\* Types; exactly the renewal that signs or writes holds the renewal lock.
TypeOK ==
  /\ kind \in Kinds
  /\ priv \in Key \union {None} /\ pub \in Key \union {None}
  /\ cert \in Cert \union {None}
  /\ jwkPub \in Jwk \union {None} /\ jwkPriv \in Sealed \union {None}
  /\ stored \in Pw \union {None} /\ ring \in Pw \union {None}
  /\ pending \in Pair \union {None}
  /\ trusted \in BOOLEAN
  /\ pc \in [Run -> Labels] /\ run \in [Run -> Local]
  /\ \A r \in Run : pc[r] \in {"renew", "renewed"} <=> renewLock = r
  /\ pinned \in Pair \union {None}
  /\ tombstones \subseteq Key \union Jwk /\ used \subseteq Key \union Jwk
  /\ requests \subseteq Pair /\ grants \subseteq Grant
  /\ faults \in 0 .. MaxFaults /\ upsets \in 0 .. MaxUpsets

\* bin store_renewal_password and ensure_host_keys: wherever an enrollment is
\* cut, and whatever password is entered on the next attempt, a password kept
\* for unattended renewal opens the private JWK it is kept for.
StoredPasswordOpens ==
  jwkPriv # None /\ stored # None => stored = jwkPriv.pw

\* An enrollment that reports completion leaves a machine that renews unattended,
\* also when its grant outlived a revocation or its password came from a store:
\* unless somebody revoked, replaced or forgot keys while it ran.
CompletionIsRenewable ==
  [][\A r \in Run :
       pc[r] = "finish" /\ pc'[r] = "idle" /\ pending' # pending /\ ~ run[r].overtaken =>
         \E pw \in Pw : Renews(pw) /\ (run[r].file \/ pw = Lookup)]_vars

\* What may put another certificate in the place of an effectively infinite one: an
\* enrollment that writes the first certificate of a later grant, and a renewal that
\* began before the infinite certificate was there, and so saw another one or none.
FirstCertificate(r) == pc[r] = "write" /\ pc'[r] = "prove"

RenewalFromBefore(r) == pc[r] = "renewed" /\ pc'[r] = "idle" /\ ~ run[r].overEndless

\* An effectively infinite certificate is replaced by nothing else: neither by the
\* enrollment that obtained it when that proves renewal, nor by the end of an older
\* enrollment, nor by a renewal that began under it (user_certificate_needs_renewal,
\* verify_user_renewal).
InitialCertificateSurvives ==
  [][Endless /\ cert' \notin {cert, None} =>
       \E r \in Run : FirstCertificate(r) \/ RenewalFromBefore(r)]_vars

-----------------------------------------------------------------------------
\* The keys on this machine are ones the CA may still approve.
Approvable == {pub, jwkPub} \cap tombstones = {} /\ pinned \in {None, Installed}

Served ==
  /\ pinned # None /\ pinned = Installed
  /\ jwkPriv # None /\ cert # None /\ cert.key = pub
  /\ pending = None

\* The command would not find, and not ask for, the password that opens the credential.
NeedsFile ==
  /\ kind = "user" /\ jwkPriv # None
  /\ Lookup # jwkPriv.pw
  /\ Lookup # None \/ pending # None

\* An enrollment at its label that has what it needs, the file included.
Ready(r, label) == pc[r] = label /\ (NeedsFile => run[r].file)

\* Enrollment with the password that opens an existing credential.
EnrollRight(r) ==
  \/ Resume(r, NeedsFile)
  \/ \E pw \in Pw \union {None} :
       /\ kind = "user" /\ jwkPriv # None => pw = jwkPriv.pw
       /\ StartEnroll(r, pw, NeedsFile)

\* A started invocation goes on; somebody who is not yet served enrolls again, by
\* and by with the right password, from a file where it must be (or gives up and
\* comes back with it); the CA's operator answers requests that are waited for,
\* and now and then in time.
FairSpec ==
  /\ Spec
  /\ \A r \in Run : WF_vars(Step(r))
  /\ \A r \in Enroller :
       /\ SF_vars(~ Served /\ EnrollRight(r))
       /\ WF_vars(~ Ready(r, "await") /\ Cancel(r))
       /\ SF_vars(Ready(r, "await") /\ \E preserve \in BOOLEAN : Approve(run[r].req, preserve))
       /\ SF_vars(Ready(r, "await") /\ \E g \in grants : TakeGrant(r, g))
       /\ SF_vars(Ready(r, "issue") /\ Issue(r))

\* Wherever enrollments were cut, and with whatever half-made keys, repeating
\* them ends in a served machine as long as its keys are not revoked.
EnrollmentCompletes == <>[]Approvable => []<>Served
=============================================================================
