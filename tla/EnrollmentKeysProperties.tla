------------------------ MODULE EnrollmentKeysProperties ------------------------
(***************************************************************************)
(* What the migration and the rollout of the enrollment keys promise.      *)
(***************************************************************************)
EXTENDS EnrollmentKeys

Job == [at : {"idle", "wait", "role", "place", "check", "merge", "out"}, op : {"migrate", "materialize", None},
        read : Live \union {None}, role : DOMAIN Roles, file : DOMAIN PlaceOrder,
        pw : Pw \union {None}, out : Live \union {None}]

\* Types, and mutual exclusion of the two commands by the CA lock.
TypeOK ==
  /\ live \in Live
  /\ files \in [Role -> Credential]
  /\ staged \in Staged \union {None}
  /\ holder \in Proc \union {None}
  /\ job \in [Proc -> Job]
  /\ \A p \in Proc : holder = p <=> job[p].at \notin {"idle", "wait"}
  /\ tokens \subseteq [role : Role, key : Key]
  /\ enrolled \subseteq Enrollment
  /\ cuts \in 0 .. MaxCuts

\* bin migrate_enrollment_provisioner_keys: "the password file is the migration
\* completion marker": wherever a migration was cut and however often it
\* was repeated, a password stands only beside the key pair that it opens.
MarkerMeansComplete ==
  \A r \in Role : files[r].pw # None => files[r].priv = [key |-> files[r].pub, pw |-> files[r].pw]

\* README.md: materialize fails closed, so a skipped or partial migration cannot
\* silently disable later approvals: where ca.json no longer has a role's private
\* key, the files of that role sign for it.
RolloutKeepsSigning ==
  \A r \in Role : live.prov[r] # None /\ live.prov[r].enc = None => Signs(files[r], live.prov[r].key)

\* README.md: existing enrollment tokens remain verifiable: through migration and
\* rollout the key that signed a token is the one in ca.json.
TokensVerify ==
  \A t \in tokens : live.prov[t.role] # None /\ live.prov[t.role].key = t.key

\* README.md: a rollout neither restores a revoked renewal provisioner nor omits
\* one that was approved.
RolloutKeepsEnrollments == live.renewals = enrolled

-----------------------------------------------------------------------------
\* A started command goes on, the lock is handed to some waiter, and now and
\* then to a migration, which is repeated.
FairSpec ==
  /\ Spec
  /\ \A p \in Proc : WF_vars(Step(p))
  /\ WF_vars(\E p \in Proc : Lock(p))
  /\ SF_vars(\E p \in Proc : Start(p, "migrate"))
  /\ SF_vars(\E p \in Proc : job[p].op = "migrate" /\ Lock(p))

\* README.md: the migration is safe to rerun: wherever it was cut, repeating it ends
\* in complete files for both roles, whose keys ca.json had.
MigrationCompletes ==
  (\A r \in Role : Convertible(live.prov[r])) ~>
    (\A r \in Role : live.prov[r] # None /\ Signs(files[r], live.prov[r].key))
=============================================================================
