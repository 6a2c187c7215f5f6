------------------------------ MODULE EnrollClient ------------------------------
(***************************************************************************)
(* Enrollment and renewal of one SSH identity on its own machine: a user   *)
(* on a client host, or the host itself.  `ssh enroll` makes the key       *)
(* material, publishes a request and waits for the grant; with the grant   *)
(* it obtains a first certificate and proves that renewal works.  The      *)
(* scheduled `ssh renew` runs beside it: only renewals take the renewal    *)
(* lock.  The CA is what this client meets of it: the pair of keys it      *)
(* pins, its tombstones and its outstanding one-time tokens.               *)
(***************************************************************************)
EXTENDS Naturals

CONSTANTS
  Kinds,       \* subset of {"user", "host"}
  Enroller,    \* terminals at which ssh enroll may run
  Renewer,     \* schedules and terminals at which ssh renew may run
  Key, Jwk,    \* SSH key pairs and renewal JWKs that may be generated
  Pw,          \* renewal passwords
  Upsets,      \* subset of {"revoke", "replace", "remove", "forget"}
  MaxFaults,   \* bound on the faults
  MaxUpsets,   \* bound on the upsets
  None

VARIABLES
  kind,        \* what is enrolled; it never changes
  priv, pub,   \* id_ed25519 and id_ed25519.pub, or the host key
  cert,        \* the certificate beside them
  jwkPub,      \* provisioner.pub.json
  jwkPriv,     \* provisioner.priv.json: the JWK and the password that opens it
  stored,      \* the systemd credential (user) or renewal-password (host)
  ring,        \* the copy in the Secret Service (user)
  pending,     \* pending-enrollment.json
  trusted,     \* the CA root is installed
  renewLock,   \* run holding the renewal lock, or None
  pc, run,     \* per run: where it is, and its local variables
  pinned,      \* pair of keys of the CA's renewal provisioner, or None
  tombstones,  \* keys and JWKs the CA has revoked
  requests,    \* requests printed so far
  grants,      \* grants whose one-time token is neither used nor expired
  used,        \* keys and JWKs generated so far
  faults, upsets

keyVars == <<priv, pub, cert>>
credVars == <<jwkPub, jwkPriv, stored, ring>>
caVars == <<pinned, tombstones, grants>>
counts == <<faults, upsets>>
vars == <<kind, keyVars, credVars, pending, trusted, renewLock, pc, run, caVars, requests, used, counts>>

-----------------------------------------------------------------------------
Run == Enroller \union Renewer

Pair == [key : Key, jwk : Jwk]

\* A grant of document version 2 keeps its initial certificate.
Grant == [pair : Pair, preserve : BOOLEAN]

Cert == [key : Key, endless : BOOLEAN, due : BOOLEAN]

Sealed == [jwk : Jwk, pw : Pw]

\* The local variables of an invocation: its operation, the password and
\* whether it came from --password-file or is to be stored, the request and the
\* grant it works on, the certificate it obtained, the identity files it still has
\* to remove, and (history) whether others changed what it works with and whether
\* an endless certificate was there when a renewal began.
Idle == [op |-> None, pw |-> None, file |-> FALSE, save |-> FALSE, req |-> None, grant |-> None,
         new |-> None, left |-> {}, overtaken |-> FALSE, overEndless |-> FALSE]

ASSUME EnrollClientAssumption ==
  /\ Kinds \subseteq {"user", "host"}
  /\ Key # {}
  /\ \A pw \in Pw \union {None} : Pw \ {pw} # {}
  /\ Upsets \subseteq {"revoke", "replace", "remove", "forget"}
  /\ MaxFaults \in Nat /\ MaxUpsets \in Nat
  /\ None \notin {"enroll", "renew"} \union Run \union Key \union Jwk \union Pw
  /\ None \notin Pair \union Grant \union Cert \union Sealed

Installed == [key |-> pub, jwk |-> jwkPub]

\* The password an unattended command finds: the systemd credential first.
Lookup == IF stored # None THEN stored ELSE ring

\* The private JWK opens and is the one the CA pins, with the key on disk.
Renews(pw) ==
  /\ jwkPriv # None /\ pub # None /\ pinned # None
  /\ jwkPriv.pw = pw
  /\ pinned = [key |-> pub, jwk |-> jwkPriv.jwk]

Init ==
  /\ kind \in Kinds
  /\ used = IF kind = "host" THEN {CHOOSE k \in Key : TRUE} ELSE {}
  /\ priv = IF kind = "host" THEN CHOOSE k \in Key : TRUE ELSE None
  /\ pub = priv
  /\ cert = None
  /\ jwkPub = None /\ jwkPriv = None
  /\ stored = None /\ ring = None
  /\ pending = None
  /\ trusted = FALSE
  /\ renewLock = None
  /\ pc = [r \in Run |-> "idle"]
  /\ run = [r \in Run |-> Idle]
  /\ pinned = None /\ tombstones = {}
  /\ requests = {} /\ grants = {}
  /\ faults = 0 /\ upsets = 0

Goto(r, label) == pc' = [pc EXCEPT ![r] = label]

\* Mutant: the lock outlives its process.
LeaveLocked(r) ==
  /\ Goto(r, "idle")
  /\ run' = [run EXCEPT ![r] = Idle]
  /\ UNCHANGED renewLock

\* The end of an invocation by any path: the lock goes with its process.
Leave(r) ==
  /\ Goto(r, "idle")
  /\ run' = [run EXCEPT ![r] = Idle]
  /\ renewLock' = IF renewLock = r THEN None ELSE renewLock

\* A step that goes on to label with new local variables.
Go(r, label, locals) ==
  /\ Goto(r, label)
  /\ run' = [run EXCEPT ![r] = locals]
  /\ UNCHANGED renewLock

-----------------------------------------------------------------------------
(***************************************************************************)
(* ssh enroll: the key material.                                           *)
(***************************************************************************)

\* A host's password is in its file, a user's was read when the renewal began.
RenewalPassword(r) == IF kind = "host" THEN stored ELSE run[r].pw

NoEnrollment == \A q \in Run : run[q].op # "enroll"

\* A pending request is read and its grant waited for.  One person enrolls an
\* identity: enrollments of it do not overlap.
Resume(r, file) ==
  /\ r \in Enroller /\ pc[r] = "idle" /\ NoEnrollment
  /\ file => kind = "user"
  /\ pending # None
  /\ Go(r, "await", [Idle EXCEPT !.op = "enroll", !.file = file, !.req = pending])
  /\ UNCHANGED <<kind, keyVars, credVars, pending, trusted, caVars, requests, used, counts>>

\* Otherwise material is made.  A user's password comes from --password-file, from
\* a store, or else from the terminal; only the last is to be stored.
StartEnroll(r, pw, file) ==
  /\ r \in Enroller /\ pc[r] = "idle" /\ NoEnrollment
  /\ pending = None
  /\ IF kind = "host"
     THEN ~ file /\ pw = None /\ Go(r, "jwk", [Idle EXCEPT !.op = "enroll"])
     ELSE /\ pw \in Pw
          /\ file \/ Lookup \in {None, pw}
          /\ Go(r, "identity", [Idle EXCEPT !.op = "enroll", !.pw = pw, !.file = file,
                                            !.save = ~ file /\ Lookup = None])
  /\ UNCHANGED <<kind, keyVars, credVars, pending, trusted, caVars, requests, used, counts>>

\* --restart publishes the complete material again as it is.
Restart(r) ==
  /\ r \in Enroller /\ pc[r] = "idle" /\ NoEnrollment
  /\ None \notin {priv, pub, jwkPriv, jwkPub}
  /\ kind = "host" => stored # None
  /\ Go(r, "publish", [Idle EXCEPT !.op = "enroll", !.req = Installed])
  /\ UNCHANGED <<kind, keyVars, credVars, pending, trusted, caVars, requests, used, counts>>

IdentityFiles == {f \in {"priv", "pub", "cert"} :
                    [priv |-> priv, pub |-> pub, cert |-> cert][f] # None}

\* Nothing there: a new key.  Otherwise the operator uses the complete pair.
UseIdentity(r) ==
  /\ pc[r] = "identity"
  /\ \/ IdentityFiles = {} /\ Go(r, "generate", run[r])
     \/ priv # None /\ priv = pub /\ Go(r, "jwk", run[r])
  /\ UNCHANGED <<kind, keyVars, credVars, pending, trusted, caVars, requests, used, counts>>

\* Other runs at work meet an operator's change of what they work with.
Overtake(r) == [q \in Run |-> IF q # r /\ run[q] # Idle THEN [run[q] EXCEPT !.overtaken = TRUE] ELSE run[q]]

Fault == faults < MaxFaults /\ faults' = faults + 1 /\ UNCHANGED upsets

Upset(u) == u \in Upsets /\ upsets < MaxUpsets /\ upsets' = upsets + 1 /\ UNCHANGED faults

\* Or has it replaced, which is the only choice besides to cancel when a half
\* of the pair is missing.
ReplaceIdentity(r) ==
  /\ pc[r] = "identity"
  /\ IdentityFiles # {}
  /\ IF None \in {priv, pub} THEN UNCHANGED counts ELSE Upset("replace")
  /\ Goto(r, "remove")
  /\ run' = [Overtake(r) EXCEPT ![r].left = IdentityFiles]
  /\ UNCHANGED <<kind, keyVars, credVars, pending, trusted, renewLock, caVars, requests, used>>

\* File by file: the private key, the public key, the certificate.
RemoveIdentity(r) ==
  LET f == IF "priv" \in run[r].left THEN "priv" ELSE IF "pub" \in run[r].left THEN "pub" ELSE "cert" IN
  /\ pc[r] = "remove"
  /\ priv' = IF f = "priv" THEN None ELSE priv
  /\ pub' = IF f = "pub" THEN None ELSE pub
  /\ cert' = IF f = "cert" THEN None ELSE cert
  /\ Go(r, IF run[r].left = {f} THEN "generate" ELSE "remove", [run[r] EXCEPT !.left = @ \ {f}])
  /\ UNCHANGED <<kind, credVars, pending, trusted, caVars, requests, used, counts>>

\* A new key is like no other; which one it is does not matter.
Fresh(S) == CHOOSE x \in S \ used : TRUE

GenerateIdentity(r) ==
  /\ pc[r] = "generate"
  /\ Key \ used # {}
  /\ used' = used \union {Fresh(Key)}
  /\ priv' = Fresh(Key) /\ pub' = Fresh(Key)
  /\ Go(r, "jwk", run[r])
  /\ UNCHANGED <<kind, cert, credVars, pending, trusted, caVars, requests, counts>>

\* ssh-keygen is cut between its two files.
GenerateTorn(r) ==
  /\ pc[r] = "generate"
  /\ Key \ used # {}
  /\ Fault
  /\ used' = used \union {Fresh(Key)}
  /\ priv' = Fresh(Key)
  /\ Leave(r)
  /\ UNCHANGED <<kind, pub, cert, credVars, pending, trusted, caVars, requests>>

\* Mutant: the password is not tried on the existing credential.
UsableUntried(r) == jwkPriv # None /\ jwkPub # None

\* An existing renewal credential is used if it is complete and, a user's, if the
\* password opens it.
Usable(r) ==
  /\ jwkPriv # None /\ jwkPub # None
  /\ IF kind = "user" THEN jwkPriv.pw = run[r].pw ELSE stored # None

UseCredential(r) ==
  /\ pc[r] = "jwk"
  /\ Usable(r)
  /\ Go(r, IF run[r].save THEN "store" ELSE "publish", [run[r] EXCEPT !.req = Installed])
  /\ UNCHANGED <<kind, keyVars, credVars, pending, trusted, caVars, requests, used, counts>>

\* Mutant: it keeps the password once the key is made.
HostPasswordLater(r) ==
  LET pw == CHOOSE w \in Pw : w # stored IN
  /\ pc[r] = "jwk" /\ kind = "host" /\ jwkPriv = None
  /\ Go(r, "seal", [run[r] EXCEPT !.pw = pw, !.save = TRUE])
  /\ UNCHANGED <<kind, keyVars, credVars, pending, trusted, caVars, requests, used, counts>>

\* A host makes up a password and keeps it first, so that no key is without one.
HostPassword(r) ==
  LET pw == CHOOSE w \in Pw : w # stored IN
  /\ pc[r] = "jwk" /\ kind = "host" /\ jwkPriv = None
  /\ stored' = pw
  /\ Go(r, "seal", [run[r] EXCEPT !.pw = pw])
  /\ UNCHANGED <<kind, keyVars, jwkPub, jwkPriv, ring, pending, trusted, caVars, requests, used, counts>>

\* step writes the public JWK and then the private one, encrypted; a fault may
\* leave the public one alone.
CreateCredential(r) ==
  /\ \/ pc[r] = "seal"
     \/ pc[r] = "jwk" /\ kind = "user"
  /\ jwkPriv = None
  /\ Jwk \ used # {}
  /\ used' = used \union {Fresh(Jwk)}
  /\ jwkPub' = Fresh(Jwk)
  /\ \/ /\ jwkPriv' = [jwk |-> Fresh(Jwk), pw |-> run[r].pw]
        /\ Go(r, IF run[r].save THEN "store" ELSE "publish",
              [run[r] EXCEPT !.req = [key |-> pub, jwk |-> Fresh(Jwk)]])
        /\ UNCHANGED counts
     \/ Fault /\ Leave(r) /\ UNCHANGED jwkPriv
  /\ UNCHANGED <<kind, keyVars, stored, ring, pending, trusted, caVars, requests>>

\* Only after the password opened or sealed the credential is it stored: for
\* unattended use, and in the keyring if there is one.
StorePassword(r, inRing) ==
  /\ pc[r] = "store"
  /\ stored' = run[r].pw
  /\ ring' = IF inRing THEN run[r].pw ELSE ring
  /\ Go(r, "publish", run[r])
  /\ UNCHANGED <<kind, keyVars, jwkPub, jwkPriv, pending, trusted, caVars, requests, used, counts>>

-----------------------------------------------------------------------------
(***************************************************************************)
(* ssh enroll: the request, the grant and the first certificate.           *)
(***************************************************************************)

\* The request is kept and printed; --request-only stops here, as somebody who
\* cancels the wait does.
Publish(r) ==
  /\ pc[r] = "publish"
  /\ None \notin {run[r].req.key, run[r].req.jwk}
  /\ pending' = run[r].req
  /\ requests' = requests \union {run[r].req}
  /\ Go(r, "await", run[r])
  /\ UNCHANGED <<kind, keyVars, credVars, trusted, caVars, used, counts>>

\* The grant must be for the request that was read; then the root is installed.
TakeGrant(r, g) ==
  /\ pc[r] = "await"
  /\ g.pair = run[r].req
  /\ trusted' = TRUE
  /\ Go(r, "issue", [run[r] EXCEPT !.grant = g])
  /\ UNCHANGED <<kind, keyVars, credVars, pending, caVars, requests, used, counts>>

\* The CA uses up the token and signs the public key on disk if it is the one
\* in the token.
Issuable(r) == run[r].grant \in grants /\ pub = run[r].grant.pair.key

Issue(r) ==
  /\ pc[r] = "issue"
  /\ Issuable(r)
  /\ grants' = grants \ {run[r].grant}
  /\ Go(r, "write", [run[r] EXCEPT !.new = [key |-> pub, endless |-> run[r].grant.preserve, due |-> FALSE]])
  /\ UNCHANGED <<kind, keyVars, credVars, pending, trusted, pinned, tombstones, requests, used, counts>>

\* Whoever obtained a certificate writes it, whatever is there now.
WriteCert(r) ==
  /\ pc[r] \in {"write", "proved", "renewed"}
  /\ cert' = run[r].new
  /\ CASE pc[r] = "write" -> Go(r, "prove", [run[r] EXCEPT !.new = None])
       [] pc[r] = "proved" -> Go(r, "finish", [run[r] EXCEPT !.new = None])
       [] OTHER -> Leave(r)
  /\ UNCHANGED <<kind, priv, pub, credVars, pending, trusted, caVars, requests, used, counts>>

RenewalOf(k) == [key |-> k, endless |-> FALSE, due |-> FALSE]

\* Mutant: a certificate is proof enough.
ProvableAlways(r) == TRUE

\* The password of the same file, or else the stored one, must renew.
Provable(r) ==
  IF run[r].file THEN \E pw \in Pw : run[r].pw \in {None, pw} /\ Renews(pw)
                 ELSE Renews(Lookup)

\* Mutant: always in place.
ProveInPlace(r) ==
  /\ pc[r] = "prove"
  /\ Provable(r)
  /\ Go(r, "proved", [run[r] EXCEPT !.new = RenewalOf(pub)])
  /\ UNCHANGED <<kind, keyVars, credVars, pending, trusted, caVars, requests, used, counts>>

\* Renewal is proved in place, or beside a certificate that is to be kept.
Prove(r) ==
  /\ pc[r] = "prove"
  /\ Provable(r)
  /\ IF run[r].grant.preserve
     THEN Go(r, "finish", run[r])
     ELSE Go(r, "proved", [run[r] EXCEPT !.new = RenewalOf(pub)])
  /\ UNCHANGED <<kind, keyVars, credVars, pending, trusted, caVars, requests, used, counts>>

Finish(r) ==
  /\ pc[r] = "finish"
  /\ pending # None
  /\ pending' = None
  /\ Leave(r)
  /\ UNCHANGED <<kind, keyVars, credVars, trusted, caVars, requests, used, counts>>

\* A step that cannot go on ends its invocation: no usable pair or password, no
\* pending request, a grant for other keys, a CA that refuses.
Refused(r) ==
  /\ \/ pc[r] = "jwk" /\ jwkPriv # None /\ ~ Usable(r)
     \/ pc[r] = "seal" /\ jwkPriv # None
     \/ pc[r] = "publish" /\ None \in {run[r].req.key, run[r].req.jwk}
     \/ pc[r] = "finish" /\ pending = None
     \/ pc[r] = "await" /\ \E g \in grants : g.pair # run[r].req
     \/ pc[r] = "issue" /\ ~ Issuable(r)
     \/ pc[r] = "prove" /\ ~ Provable(r)
     \/ pc[r] = "renew" /\ ~ Renews(RenewalPassword(r))
  /\ Leave(r)
  /\ UNCHANGED <<kind, keyVars, credVars, pending, trusted, caVars, requests, used, counts>>

-----------------------------------------------------------------------------
(***************************************************************************)
(* ssh renew, scheduled or by hand.                                        *)
(***************************************************************************)

Endless == cert # None /\ cert.endless

\* Mutant: an endless certificate is renewed like any other.
NeedsRenewalAlways == cert # None => cert.due \/ cert.endless

NeedsRenewal == cert # None => cert.due

\* A renewal works if this machine is enrolled, no other renewal does, the CA lists
\* its provisioner and the certificate is due; it has read the password before.
StartRenew(r) ==
  /\ r \in Renewer /\ pc[r] = "idle"
  /\ trusted /\ jwkPriv # None
  /\ kind = "user" => Lookup # None
  /\ renewLock = None
  /\ pinned # None
  /\ NeedsRenewal
  /\ Goto(r, "renew")
  /\ run' = [run EXCEPT ![r] = [Idle EXCEPT !.op = "renew", !.pw = Lookup, !.overEndless = Endless]]
  /\ renewLock' = r
  /\ UNCHANGED <<kind, keyVars, credVars, pending, trusted, caVars, requests, used, counts>>

Renew(r) ==
  /\ pc[r] = "renew"
  /\ Renews(RenewalPassword(r))
  /\ Go(r, "renewed", [run[r] EXCEPT !.new = RenewalOf(pub)])
  /\ UNCHANGED <<kind, keyVars, credVars, pending, trusted, caVars, requests, used, counts>>

-----------------------------------------------------------------------------
(***************************************************************************)
(* Faults, the CA, the clock and what operators do to the machine.         *)
(***************************************************************************)

\* Who waits for a grant gives up.
Cancel(r) ==
  /\ pc[r] = "await"
  /\ Leave(r)
  /\ UNCHANGED <<kind, keyVars, credVars, pending, trusted, caVars, requests, used, counts>>

\* An error of a child process, an interrupt or a kill: nothing more is done.
Cut(r) ==
  /\ pc[r] # "idle"
  /\ Fault
  /\ Leave(r)
  /\ UNCHANGED <<kind, keyVars, credVars, pending, trusted, caVars, requests, used>>

\* ssh approve: no tombstoned key, and no other pair under this identity.
Approve(q, preserve) ==
  /\ q \in requests
  /\ preserve => kind = "user"
  /\ {q.key, q.jwk} \cap tombstones = {}
  /\ pinned \in {None, q}
  /\ pinned' = q
  /\ grants' = grants \union {[pair |-> q, preserve |-> preserve]}
  /\ UNCHANGED <<kind, keyVars, credVars, pending, trusted, renewLock, pc, run, tombstones, requests, used, counts>>

GrantEnds(g) ==
  /\ grants' = grants \ {g}
  /\ UNCHANGED <<kind, keyVars, credVars, pending, trusted, renewLock, pc, run, pinned, tombstones, requests, used, counts>>

\* ssh revoke: the provisioner goes and its keys never come back.
Revoke ==
  /\ Upset("revoke")
  /\ pinned # None
  /\ tombstones' = tombstones \union {pinned.key, pinned.jwk}
  /\ pinned' = None
  /\ run' = Overtake(None)
  /\ UNCHANGED <<kind, keyVars, credVars, pending, trusted, renewLock, pc, grants, requests, used>>

\* Between enrollments somebody removes the material directory.
RemoveMaterial ==
  /\ Upset("remove")
  /\ NoEnrollment
  /\ jwkPub' = None /\ jwkPriv' = None /\ stored' = None
  /\ pending' = None
  /\ UNCHANGED <<kind, keyVars, ring, trusted, renewLock, pc, run, caVars, requests, used>>

\* The systemd credential no longer decrypts.
Forget ==
  /\ Upset("forget")
  /\ kind = "user" /\ stored # None
  /\ stored' = None
  /\ run' = Overtake(None)
  /\ UNCHANGED <<kind, keyVars, ring, jwkPub, jwkPriv, pending, trusted, renewLock, pc, caVars, requests, used>>

\* A finite certificate comes near its end.
Age ==
  /\ cert # None /\ ~ cert.endless /\ ~ cert.due
  /\ cert' = [cert EXCEPT !.due = TRUE]
  /\ UNCHANGED <<kind, priv, pub, credVars, pending, trusted, renewLock, pc, run, caVars, requests, used, counts>>

-----------------------------------------------------------------------------
Material(r) ==
  \/ HostPassword(r) \/ UseIdentity(r) \/ ReplaceIdentity(r) \/ RemoveIdentity(r)
  \/ GenerateIdentity(r) \/ GenerateTorn(r)
  \/ UseCredential(r) \/ CreateCredential(r)
  \/ \E inRing \in BOOLEAN : StorePassword(r, inRing)

Enrolling(r) ==
  \/ Publish(r) \/ \E g \in grants : TakeGrant(r, g)
  \/ Issue(r) \/ WriteCert(r) \/ Prove(r) \/ Finish(r)

Step(r) == Material(r) \/ Enrolling(r) \/ Refused(r) \/ Renew(r)

Start(r) ==
  \/ \E file \in BOOLEAN : Resume(r, file) \/ \E pw \in Pw \union {None} : StartEnroll(r, pw, file)
  \/ Restart(r) \/ StartRenew(r)

Next ==
  \/ \E r \in Run : Start(r) \/ Step(r) \/ Cancel(r) \/ Cut(r)
  \/ \E q \in requests, preserve \in BOOLEAN : Approve(q, preserve)
  \/ \E g \in grants : GrantEnds(g)
  \/ Revoke \/ RemoveMaterial \/ Forget \/ Age

Spec == Init /\ [][Next]_vars
=============================================================================
