----------------------------- MODULE EnrollmentKeys -----------------------------
(***************************************************************************)
(* The private keys of the two enrollment provisioners on the CA origin.   *)
(* An older site has them encrypted in ca.json under the intermediate CA   *)
(* password; `migrate enrollment-provisioner-keys` moves a copy of each    *)
(* into three files, `materialize` prepares a ca.json without them, and an *)
(* operator installs it.  Approvals sign their tokens with the files.      *)
(***************************************************************************)
EXTENDS Naturals, Sequences

CONSTANTS
  Proc,        \* migrate and materialize commands that may overlap
  Key,         \* enrollment key pairs
  Pw,          \* passwords
  CaPw,        \* the password of the intermediate CA
  Enrollment,  \* hosts and users whose renewal provisioners come and go
  RoleOf,      \* RoleOf[x]: the role of the provisioner that admits x
  FirstLive,   \* provisioners that ca.json may have to begin with
  MaxCuts,     \* bound on commands that fail or die in the middle
  None

VARIABLES
  live,        \* ca.json: the enrollment provisioners and the renewals
  files,       \* per role: public JWK, encrypted private JWK, password
  staged,      \* the materialized ca.json and the one it was made from
  holder,      \* command that holds the CA lock, or None
  job,         \* per command: where it is, and its local variables
  tokens,      \* enrollment tokens neither used nor expired
  enrolled,    \* history: approved and not revoked since
  cuts

commands == <<holder, job>>
vars == <<live, files, staged, commands, tokens, enrolled, cuts>>

-----------------------------------------------------------------------------
\* The order in which both commands go through the roles.
Roles == <<"host", "user">>
Role == {Roles[i] : i \in DOMAIN Roles}

\* An enrollment provisioner of ca.json: its public key and the private key that
\* its encryptedKey holds, if it has one.
Prov == [key : Key, enc : Key \union {None}]

Live == [prov : [Role -> Prov \union {None}], renewals : SUBSET Enrollment]

Staged == [from : Live, out : Live]

Sealed == [key : Key, pw : Pw]

Credential == [pub : Key \union {None}, priv : Sealed \union {None}, pw : Pw \union {None}]

NoCredential == [pub |-> None, priv |-> None, pw |-> None]

\* A command: its label, the ca.json it read, the role it is at and the next of
\* that role's files, the new password, and what it has materialized.
Idle == [at |-> "idle", op |-> None, read |-> None, role |-> 1, file |-> 1, pw |-> None, out |-> None]

ASSUME EnrollmentKeysAssumption ==
  /\ CaPw \in Pw
  /\ RoleOf \in [Enrollment -> Role]
  /\ FirstLive \subseteq [Role -> Prov \union {None}]
  /\ \A first \in FirstLive : \A r \in Role : first[r] # None => first[r].enc # None
  /\ MaxCuts \in Nat
  /\ None \notin Proc \union Key \union Pw \union Prov \union Sealed \union Staged \union Live

Init ==
  /\ live \in [prov : FirstLive, renewals : {{}}]
  /\ files = [r \in Role |-> NoCredential]
  /\ staged = None
  /\ holder = None
  /\ job = [p \in Proc |-> Idle]
  /\ tokens = {}
  /\ enrolled = {}
  /\ cuts = 0

\* validate_enrollment_provisioner_key_files: the files sign for the expected key.
Signs(c, key) ==
  /\ c.pub = key
  /\ c.priv # None /\ c.pw # None
  /\ c.pw # CaPw
  /\ c.priv = [key |-> key, pw |-> c.pw]

-----------------------------------------------------------------------------
(***************************************************************************)
(* A command, under the CA lock.                                           *)
(***************************************************************************)

At(p, label) == job[p].at = label

Go(p, local) == job' = [job EXCEPT ![p] = local] /\ UNCHANGED holder

\* Mutant: the lock outlives the command.
ExitKeepingLock(p) == job' = [job EXCEPT ![p] = Idle] /\ UNCHANGED holder

\* A command ends by any path, and its lock with it.
Exit(p) == job' = [job EXCEPT ![p] = Idle] /\ holder' = IF holder = p THEN None ELSE holder

Start(p, op) ==
  /\ At(p, "idle")
  /\ Go(p, [Idle EXCEPT !.at = "wait", !.op = op])
  /\ UNCHANGED <<live, files, staged, tokens, enrolled, cuts>>

\* Under the lock it reads ca.json, once.
Lock(p) ==
  /\ At(p, "wait")
  /\ holder = None
  /\ holder' = p
  /\ job' = [job EXCEPT ![p].at = IF job[p].op = "migrate" THEN "role" ELSE "merge", ![p].read = live]
  /\ UNCHANGED <<live, files, staged, tokens, enrolled, cuts>>

-----------------------------------------------------------------------------
(***************************************************************************)
(* migrate enrollment-provisioner-keys                                     *)
(***************************************************************************)

AtRole(p) == Roles[job[p].role]
ReadProv(p) == job[p].read.prov[AtRole(p)]

NextRole(p) ==
  IF job[p].role = Len(Roles) THEN Exit(p)
  ELSE Go(p, [job[p] EXCEPT !.at = "role", !.role = @ + 1, !.pw = None])

\* The password file says that a role has been migrated; its files are checked again.
Skip(p) ==
  /\ At(p, "role")
  /\ ReadProv(p) # None
  /\ files[AtRole(p)].pw # None
  /\ Signs(files[AtRole(p)], ReadProv(p).key)
  /\ NextRole(p)
  /\ UNCHANGED <<live, files, staged, tokens, enrolled, cuts>>

\* Mutant: the decrypted key is not compared with the public one.
ConvertibleUnchecked(prov) == prov # None /\ prov.enc # None

\* Its encrypted key opens and belongs to the public key of the same provisioner.
Convertible(prov) == prov # None /\ prov.enc = prov.key

\* The key is encrypted again under a fresh password; nothing is in place yet.
Convert(p, pw) ==
  /\ At(p, "role")
  /\ files[AtRole(p)].pw = None
  /\ Convertible(ReadProv(p))
  /\ pw # CaPw
  /\ Go(p, [job[p] EXCEPT !.at = "place", !.file = 1, !.pw = pw])
  /\ UNCHANGED <<live, files, staged, tokens, enrolled, cuts>>

\* Mutant: the password goes in place first.
MarkerFirst == <<"pw", "pub", "priv">>

\* The password, which marks a role as migrated, goes in place last.
PlaceOrder == <<"pub", "priv", "pw">>

Converted(p) ==
  [pub |-> ReadProv(p).key, priv |-> [key |-> ReadProv(p).enc, pw |-> job[p].pw], pw |-> job[p].pw]

With(c, f, new) ==
  CASE f = "pub"  -> [c EXCEPT !.pub = new.pub]
    [] f = "priv" -> [c EXCEPT !.priv = new.priv]
    [] f = "pw"   -> [c EXCEPT !.pw = new.pw]

\* One file is atomically replaced.
Place(p) ==
  /\ At(p, "place")
  /\ files' = [files EXCEPT ![AtRole(p)] = With(@, PlaceOrder[job[p].file], Converted(p))]
  /\ Go(p, IF job[p].file = Len(PlaceOrder) THEN [job[p] EXCEPT !.at = "check"]
           ELSE [job[p] EXCEPT !.file = @ + 1])
  /\ UNCHANGED <<live, staged, tokens, enrolled, cuts>>

\* The files are checked as they are in place.
Check(p) ==
  /\ At(p, "check")
  /\ IF Signs(files[AtRole(p)], ReadProv(p).key) THEN NextRole(p) ELSE Exit(p)
  /\ UNCHANGED <<live, files, staged, tokens, enrolled, cuts>>

\* A role missing in ca.json, files that do not sign for it, no usable encrypted
\* key, or an unlucky password: the command gives up, the roles before it done.
GiveUp(p) ==
  /\ At(p, "role")
  /\ \/ ReadProv(p) = None
     \/ ReadProv(p) # None /\ files[AtRole(p)].pw # None /\ ~ Signs(files[AtRole(p)], ReadProv(p).key)
     \/ ReadProv(p) # None /\ files[AtRole(p)].pw = None /\ ~ Convertible(ReadProv(p))
  /\ Exit(p)
  /\ UNCHANGED <<live, files, staged, tokens, enrolled, cuts>>

-----------------------------------------------------------------------------
(***************************************************************************)
(* materialize                                                             *)
(***************************************************************************)

\* The key a role must have: the live one, or that of a new site's public JWK.
Expected(cfg, r) == IF cfg.prov[r] # None THEN cfg.prov[r].key ELSE files[r].pub

\* Mutant: the public JWKs are compared, and the other files only have to be there.
MaterializableByPublic(cfg) ==
  \A r \in Role : files[r].pub # None /\ files[r].pub = Expected(cfg, r)

Materializable(cfg) ==
  \A r \in Role : Expected(cfg, r) # None /\ Signs(files[r], Expected(cfg, r))

\* Mutant: only the renewals of hosts are carried over.
MergeHosts(cfg) ==
  [prov |-> [r \in Role |-> [key |-> Expected(cfg, r), enc |-> None]],
   renewals |-> {x \in cfg.renewals : RoleOf[x] = "host"}]

\* Both enrollment provisioners without encryptedKey, and every live renewal.
Merge(cfg) ==
  [prov |-> [r \in Role |-> [key |-> Expected(cfg, r), enc |-> None]],
   renewals |-> cfg.renewals]

Materialize(p) ==
  /\ At(p, "merge")
  /\ IF Materializable(job[p].read)
     THEN Go(p, [job[p] EXCEPT !.at = "out", !.out = Merge(job[p].read)])
     ELSE Exit(p)
  /\ UNCHANGED <<live, files, staged, tokens, enrolled, cuts>>

WriteOut(p) ==
  /\ At(p, "out")
  /\ staged' = [from |-> job[p].read, out |-> job[p].out]
  /\ Exit(p)
  /\ UNCHANGED <<live, files, tokens, enrolled, cuts>>

\* A step binary fails, a write fails, the command is killed.  A half-written
\* out file is not usable; every other file is old or new.
Cut(p) ==
  /\ ~ At(p, "idle")
  /\ cuts < MaxCuts
  /\ cuts' = cuts + 1
  /\ staged' \in IF At(p, "out") THEN {staged, None} ELSE {staged}
  /\ Exit(p)
  /\ UNCHANGED <<live, files, tokens, enrolled>>

-----------------------------------------------------------------------------
(***************************************************************************)
(* Approvals and revocations, which change ca.json under the same lock,    *)
(* and the operator.                                                       *)
(***************************************************************************)

\* enrollment_provisioner_credential: all that an approval checks of the files.
Credentialed(c) == c.priv # None /\ c.pw # None /\ c.pw # CaPw

\* ssh approve: the live provisioner is required, and step has to open the key
\* that signs the token; without that ca.json is rolled back.
Approve(x) ==
  LET r == RoleOf[x] IN
  /\ holder = None
  /\ live.prov[r] # None
  /\ Credentialed(files[r])
  /\ files[r].priv.pw = files[r].pw
  /\ live' = [live EXCEPT !.renewals = @ \union {x}]
  /\ enrolled' = enrolled \union {x}
  /\ tokens' = tokens \union {[role |-> r, key |-> files[r].priv.key]}
  /\ UNCHANGED <<files, staged, commands, cuts>>

Revoke(x) ==
  /\ holder = None
  /\ live' = [live EXCEPT !.renewals = @ \ {x}]
  /\ enrolled' = enrolled \ {x}
  /\ UNCHANGED <<files, staged, commands, tokens, cuts>>

TokenEnds(t) ==
  /\ tokens' = tokens \ {t}
  /\ UNCHANGED <<live, files, staged, commands, enrolled, cuts>>

\* A new site: the operator makes the key of a role that ca.json does not have yet.
Bootstrap(r, key, pw) ==
  /\ live.prov[r] = None
  /\ files[r] = NoCredential
  /\ files' = [files EXCEPT ![r] = [pub |-> key, priv |-> [key |-> key, pw |-> pw], pw |-> pw]]
  /\ UNCHANGED <<live, staged, commands, tokens, enrolled, cuts>>

\* The operator installs a staged ca.json if the live one has not changed since,
\* and discards it otherwise.
Rollout ==
  /\ staged # None
  /\ live' = IF staged.from = live THEN staged.out ELSE live
  /\ staged' = None
  /\ UNCHANGED <<files, commands, tokens, enrolled, cuts>>

-----------------------------------------------------------------------------
Step(p) ==
  \/ Skip(p) \/ Place(p) \/ Check(p) \/ GiveUp(p) \/ \E pw \in Pw : Convert(p, pw)
  \/ Materialize(p) \/ WriteOut(p)

Next ==
  \/ \E p \in Proc : Lock(p) \/ Step(p) \/ Cut(p) \/ \E op \in {"migrate", "materialize"} : Start(p, op)
  \/ \E x \in Enrollment : Approve(x) \/ Revoke(x)
  \/ \E t \in tokens : TokenEnds(t)
  \/ \E r \in Role, key \in Key, pw \in Pw : Bootstrap(r, key, pw)
  \/ Rollout

Spec == Init /\ [][Next]_vars
=============================================================================
