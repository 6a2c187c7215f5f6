------------------------------ MODULE CaOrigin ------------------------------
(***************************************************************************)
(* The CA-origin transactions of grafhome-ca: approve, import, revoke and  *)
(* apply ca.  Every command loads the site model first and only then takes *)
(* the CA lock; under the lock it works on three files, the enrollment     *)
(* registry, the tracked revocation ledger and ca.json, and on the running *)
(* step-ca, which keeps serving the configuration it was started with.     *)
(* A command may be killed between any two of these effects.               *)
(***************************************************************************)
EXTENDS EnrollmentRegistry, FiniteSets, Naturals

CONSTANTS
  Proc,         \* operators' command invocations that may overlap
  KindOf,       \* KindOf[i]: "host", "user" or "x509"
  Command,      \* the commands operators run, records of CommandType below
  Policies,     \* sets of identities that policy may declare active
  InitConfigs,  \* ca.json contents before the registry existed
  Restores,     \* which stores an operator may put back to an older state
  MaxRestores,  \* bound on such restores
  Faults,       \* rare I/O faults admitted besides the ordinary failures
  Unbound, NoProv, NoConfig, Down, Idle, None

VARIABLES
  registry,     \* enrollments/registry.json
  ledger,       \* policy/revocations.toml: candidates whose keys are tombstoned
  declared,     \* identities with an active policy row
  disk,         \* config/ca.json
  running,      \* the configuration step-ca serves, or Down
  holder,       \* invocation holding the CA lock, or None
  pc,           \* where the holder is in its transaction
  prev, next,   \* the holder's previous and proposed ca.json
  cmd,          \* cmd[p]: the command p runs, or Idle
  seen,         \* seen[p]: the policy p loaded before it asked for the lock
  grants,       \* unexpired, unconsumed enrollment tokens
  retired,      \* history: enrollments whose revocation has completed
  savedRegistry, savedConfig,  \* what an operator could restore
  restores      \* number of restores so far

policyVars == <<ledger, declared>>
caVars     == <<disk, running>>
txnVars    == <<holder, pc, prev, next>>
cmdVars    == <<cmd, seen>>
savedVars  == <<savedRegistry, savedConfig, restores>>
vars == <<registry, policyVars, caVars, txnVars, cmdVars, grants, retired, savedVars>>

-----------------------------------------------------------------------------

\* One device-bound renewal provisioner: its JWK, the key its template pins
\* (Unbound before import) and whether it denies X.509.
Prov == [ren : Ren, key : Key \union {Unbound}, deny : BOOLEAN]

\* ca.json: a provisioner per identity, and the retired provisioner types still in it.
Config == [prov : [Id -> Prov \union {NoProv}], old : SUBSET {"SSHPOP", "ACME"}]

CommandType ==
  [op : {"approve", "import"}, req : Candidate] \union
  [op : {"revoke"}, scope : SUBSET Id] \union
  [op : {"apply"}]

Snapshot == [ledger : SUBSET Candidate, declared : SUBSET Id]

NoSnapshot == [ledger |-> {}, declared |-> {}]

Ssh(i)  == KindOf[i] # "x509"
X509(i) == KindOf[i] = "x509"

ASSUME CaOriginAssumption ==
  /\ KindOf \in [Id -> {"host", "user", "x509"}]
  /\ Command \subseteq CommandType
  /\ \A c \in Command : c.op = "import" => Ssh(c.req.id)
  /\ Policies \subseteq SUBSET Id
  /\ InitConfigs \subseteq Config
  /\ \A cfg \in InitConfigs, i \in Id : X509(i) => cfg.prov[i] = NoProv
  /\ Restores \subseteq {"registry", "ledger", "caJson"}
  /\ MaxRestores \in Nat
  /\ Faults \subseteq {"fsync", "afterWrite"}
  /\ Unbound \notin Key
  /\ NoProv \notin Prov
  /\ NoConfig \notin Config
  /\ Down \notin Config
  /\ Idle \notin CommandType
  /\ None \notin Proc

-----------------------------------------------------------------------------
(***************************************************************************)
(* The tracked ledger.                                                     *)
(***************************************************************************)

AsCandidate(r) == [id |-> r.id, key |-> r.key, ren |-> r.ren]

\* Mutant: only an exact key pair counts as revoked.
KeyPairRevoked(led, c) == \E e \in led : SameKeys(e, c)

\* A key or renewal key stays dead across credential types.
KeysRevoked(led, c) == \E e \in led : SharesKey(e, c)

\* SSH and X.509 tombstones are separate tables of the ledger.
SameTable(e, f) == Ssh(e.id) <=> Ssh(f.id)

\* The ledger with the selected records' keys, one entry per kind and key.
LedgerWith(led, selected) ==
  led \union {AsCandidate(r) : r \in
    {s \in selected : ~ \E e \in led : KindOf[e.id] = KindOf[s.id] /\ e.key = s.key}}

LedgerValid(led) ==
  \A e, f \in led :
    e # f => /\ KindOf[e.id] = KindOf[f.id] => e.key # f.key
             /\ SameTable(e, f) => e.ren # f.ren

(***************************************************************************)
(* Edits of ca.json.                                                       *)
(***************************************************************************)

\* A provisioner pinned to its enrolled key; only an X.509 one may issue X.509.
Pinned(c) == [ren |-> c.ren, key |-> c.key, deny |-> Ssh(c.id)]

\* Approval replaces the whole object; a host approval also drops SSHPOP.
ReconcileEnrollment(cfg, c) ==
  [prov |-> [cfg.prov EXCEPT ![c.id] = Pinned(c)],
   old  |-> IF KindOf[c.id] = "host" THEN cfg.old \ {"SSHPOP"} ELSE cfg.old]

\* Import accepts only the live JWK, unbound or already bound to the same key.
Bindable(cfg, c) ==
  /\ cfg.prov[c.id] # NoProv
  /\ cfg.prov[c.id].ren = c.ren
  /\ cfg.prov[c.id].key \in {Unbound, c.key}

\* Mutant: the import sets the template but leaves the provisioner's X.509 claim.
BindTemplateOnly(cfg, c) ==
  [prov |-> [cfg.prov EXCEPT ![c.id] = [Pinned(c) EXCEPT !.deny = cfg.prov[c.id].deny]],
   old  |-> cfg.old]

BindExistingRenewalProvisioner(cfg, c) ==
  [prov |-> [cfg.prov EXCEPT ![c.id] = Pinned(c)], old |-> cfg.old]

HostScope(scope) == \E i \in scope : KindOf[i] = "host"

RemoveMatching(cfg, scope) ==
  [prov |-> [i \in Id |-> IF i \in scope THEN NoProv ELSE cfg.prov[i]],
   old  |-> IF HostScope(scope) THEN cfg.old \ {"SSHPOP"} ELSE cfg.old]

\* An X.509 provisioner holding a key that the given ledger tombstones.
IsRevokedX509(cfg, led, i) ==
  /\ X509(i)
  /\ cfg.prov[i] # NoProv
  /\ \E e \in led : X509(e.id) /\ (e.ren = cfg.prov[i].ren \/ e.key = cfg.prov[i].key)

\* Mutant: apply ca retires ACME alone.
RemoveAcmeOnly(cfg, led) == [cfg EXCEPT !.old = @ \ {"ACME"}]

RemoveRetired(cfg, led) ==
  [prov |-> [i \in Id |-> IF IsRevokedX509(cfg, led, i) THEN NoProv ELSE cfg.prov[i]],
   old  |-> cfg.old \ {"ACME"}]

\* apply ca stops at an undeclared X.509 provisioner or an SSH one without X.509 deny.
ReconcileClaimsOk(cfg, policy) ==
  \A i \in Id : RemoveRetired(cfg, policy.ledger).prov[i] # NoProv =>
    IF X509(i) THEN i \in policy.declared ELSE cfg.prov[i].deny

-----------------------------------------------------------------------------

Init ==
  /\ registry = {}
  /\ ledger = {}
  /\ declared \in Policies
  /\ disk \in InitConfigs
  /\ running = disk
  /\ holder = None
  /\ pc = "free"
  /\ prev = NoConfig
  /\ next = NoConfig
  /\ cmd = [p \in Proc |-> Idle]
  /\ seen = [p \in Proc |-> NoSnapshot]
  /\ grants = {}
  /\ retired = {}
  /\ savedRegistry = {}
  /\ savedConfig = NoConfig
  /\ restores = 0

\* Mutant: the lock outlives the command.
ExitKeepingLock(p) ==
  /\ pc' = "free"
  /\ prev' = NoConfig
  /\ next' = NoConfig
  /\ cmd' = [cmd EXCEPT ![p] = Idle]
  /\ seen' = [seen EXCEPT ![p] = NoSnapshot]
  /\ UNCHANGED holder

\* The command ends, with or without an error, and the lock file is closed.
Exit(p) ==
  /\ holder' = None
  /\ pc' = "free"
  /\ prev' = NoConfig
  /\ next' = NoConfig
  /\ cmd' = [cmd EXCEPT ![p] = Idle]
  /\ seen' = [seen EXCEPT ![p] = NoSnapshot]

\* The command goes on to install a proposed ca.json.
Propose(cfg) ==
  /\ pc' = "install"
  /\ next' = cfg
  /\ UNCHANGED <<holder, prev, cmdVars>>

At(p, label) == holder = p /\ pc = label

AtBegin(p, op) == At(p, "begin") /\ cmd[p].op = op

(***************************************************************************)
(* A command starts: it loads the site model, and approve checks that the  *)
(* identity is declared in it, before it waits for the CA lock.            *)
(***************************************************************************)
LoadModel(p, c) ==
  /\ cmd[p] = Idle
  /\ c.op = "approve" => c.req.id \in declared
  /\ cmd' = [cmd EXCEPT ![p] = c]
  /\ seen' = [seen EXCEPT ![p] = [ledger |-> ledger, declared |-> declared]]
  /\ UNCHANGED <<registry, policyVars, caVars, txnVars, grants, retired, savedVars>>

Lock(p) ==
  /\ cmd[p] # Idle
  /\ holder = None
  /\ holder' = p
  /\ pc' = "begin"
  /\ UNCHANGED <<registry, policyVars, caVars, prev, next, cmdVars, grants, retired, savedVars>>

(***************************************************************************)
(* approve: reserve the record, then propose the reconciled ca.json.       *)
(***************************************************************************)
\* Mutant: only ca.json is consulted, not the registry's keys.
ReservableByCaJson(c) ==
  disk.prov[c.id] # NoProv => disk.prov[c.id].ren = c.ren /\ Matches(registry, c)

\* Mutant: a live provisioner must belong to a record that is already Active.
ReservableOnceActive(c) ==
  /\ ~KeysRevoked(ledger, c)
  /\ CheckCandidate(registry, c)
  /\ disk.prov[c.id] # NoProv => disk.prov[c.id].ren = c.ren /\ MatchingStatus(registry, c, "Active")
  /\ disk.prov[c.id] = NoProv => ~MatchingStatus(registry, c, "Active")

Reservable(c) ==
  /\ ~KeysRevoked(ledger, c)
  /\ CheckCandidate(registry, c)
  /\ disk.prov[c.id] # NoProv => disk.prov[c.id].ren = c.ren /\ Matches(registry, c)
  /\ disk.prov[c.id] = NoProv => ~MatchingStatus(registry, c, "Active")

\* A repeated X.509 approval whose provisioner is exactly live restarts nothing.
AlreadyApproved(c) ==
  /\ X509(c.id)
  /\ ReconcileEnrollment(disk, c) = disk
  /\ MatchingStatus(registry, c, "Active")

Approve(p) ==
  /\ AtBegin(p, "approve")
  /\ LET c == cmd[p].req IN
       \/ /\ Reservable(c)
          /\ ~AlreadyApproved(c)
          /\ registry' = Reserve(registry, c)
          /\ Propose(ReconcileEnrollment(disk, c))
       \/ /\ ~Reservable(c) \/ AlreadyApproved(c)
          /\ Exit(p)
          /\ UNCHANGED registry
  /\ UNCHANGED <<policyVars, caVars, grants, retired, savedVars>>

(***************************************************************************)
(* import: bind the live provisioner; nothing is reserved beforehand.      *)
(* Installing is skipped only when neither file would change, and bytes    *)
(* outside the model (layout of ca.json) may differ.                       *)
(***************************************************************************)
Importable(c) ==
  /\ ~KeysRevoked(ledger, c)
  /\ Bindable(disk, c)
  /\ CheckCandidate(registry, c)

Import(p) ==
  /\ AtBegin(p, "import")
  /\ LET c == cmd[p].req IN
       \/ /\ Importable(c)
          /\ Propose(BindExistingRenewalProvisioner(disk, c))
       \/ /\ Importable(c) => /\ BindExistingRenewalProvisioner(disk, c) = disk
                              /\ Activate(registry, c) = registry
          /\ Exit(p)
  /\ UNCHANGED <<registry, policyVars, caVars, grants, retired, savedVars>>

(***************************************************************************)
(* revoke: every current and historical record of the scope is selected.   *)
(* The command fails closed if a live provisioner of the scope is not      *)
(* covered by a live record, writes the ledger, and then proposes ca.json  *)
(* without the provisioners if anything is left to cut off.                *)
(***************************************************************************)
Selected(scope) == {r \in registry : r.id \in scope}

RequireRegistryCoverage(scope) ==
  \A i \in scope : disk.prov[i] # NoProv =>
    \E r \in LiveOf(registry, i) : r.ren = disk.prov[i].ren

\* Mutant: the ledger as it was before the lock.
LedgerFirstLoaded(p) == seen[p].ledger

\* The ledger as it is under the lock, not as the command first loaded it.
LedgerToExtend(p) == ledger

\* Mutant: reservations that are still Pending are not written to the ledger.
TombstoneActiveOnly(p, scope) ==
  LedgerWith(LedgerToExtend(p), {r \in Selected(scope) : r.status = "Active"})

PrepareRevocationPolicyUpdate(p, scope) == LedgerWith(LedgerToExtend(p), Selected(scope))

\* Mutant: nothing is left to do once ca.json has lost the provisioners.
CutsOffProvisioners(scope) == RemoveMatching(disk, scope) # disk

CutsOff(scope) ==
  \/ RemoveMatching(disk, scope) # disk
  \/ \E i \in scope : LiveOf(registry, i) # {}

\* Mutant: the registry is tombstoned before ca.json is changed.
RevokeRegistryFirst(p) ==
  /\ AtBegin(p, "revoke")
  /\ LET scope == cmd[p].scope
         updated == PrepareRevocationPolicyUpdate(p, scope)
     IN /\ RequireRegistryCoverage(scope) /\ LedgerValid(updated)
        /\ ledger' = updated
        /\ registry' = MarkRevoked(registry, Selected(scope))
        /\ IF CutsOff(scope) THEN Propose(RemoveMatching(disk, scope)) ELSE Exit(p)
  /\ UNCHANGED <<declared, caVars, grants, retired, savedVars>>

Revoke(p) ==
  /\ AtBegin(p, "revoke")
  /\ LET scope == cmd[p].scope
         updated == PrepareRevocationPolicyUpdate(p, scope)
         ok == RequireRegistryCoverage(scope) /\ LedgerValid(updated)
     IN \/ /\ ok
           /\ ledger' = updated
           /\ IF CutsOff(scope) THEN Propose(RemoveMatching(disk, scope)) ELSE Exit(p)
        \/ /\ ~ok
           /\ Exit(p)
           /\ UNCHANGED ledger
  /\ UNCHANGED <<registry, declared, caVars, grants, retired, savedVars>>

(***************************************************************************)
(* apply ca: reconcile ca.json with the policy loaded before the lock.     *)
(* Claims and names are outside the model, so installing an equal model    *)
(* configuration is possible.                                              *)
(***************************************************************************)
ApplyCa(p) ==
  /\ AtBegin(p, "apply")
  /\ LET reconciled == RemoveRetired(disk, seen[p].ledger) IN
       \/ /\ ReconcileClaimsOk(disk, seen[p])
          /\ Propose(reconciled)
       \/ /\ ReconcileClaimsOk(disk, seen[p]) => reconciled = disk
          /\ Exit(p)
  /\ UNCHANGED <<registry, policyVars, caVars, grants, retired, savedVars>>

-----------------------------------------------------------------------------
(***************************************************************************)
(* install_ca_json_with_rollback, shared by the four commands.             *)
(***************************************************************************)

\* Back up and atomically replace ca.json.
InstallCaJson(p) ==
  /\ At(p, "install")
  /\ prev' = disk
  /\ disk' = next
  /\ pc' = "activate"
  /\ savedConfig' \in IF "caJson" \in Restores THEN {savedConfig, disk} ELSE {savedConfig}
  /\ UNCHANGED <<registry, policyVars, running, holder, next, cmdVars, grants, retired,
                 savedRegistry, restores>>

\* Mutant: an approval that cannot install takes its reservation back.
InstallFailsUnreserving(p) ==
  /\ At(p, "install")
  /\ Exit(p)
  /\ registry' = IF cmd[p].op = "approve"
                   THEN registry \ {AsRecord(cmd[p].req, "Pending")} ELSE registry
  /\ UNCHANGED <<policyVars, caVars, grants, retired, savedVars>>

\* The backup or the temporary file cannot be written: nothing has changed.
InstallFails(p) ==
  /\ At(p, "install")
  /\ Exit(p)
  /\ UNCHANGED <<registry, policyVars, caVars, grants, retired, savedVars>>

\* An error after the rename and before activation (the directory sync, or no
\* trusted step binary) returns without the rollback.
InstallFailsLate(p) ==
  /\ "afterWrite" \in Faults
  /\ At(p, "install")
  /\ disk' = next
  /\ Exit(p)
  /\ UNCHANGED <<registry, policyVars, running, grants, retired, savedVars>>

\* step-ca is restarted, active and healthy.
RestartCa(p) ==
  /\ At(p, "activate")
  /\ running' = disk
  /\ pc' = "commit"
  /\ UNCHANGED <<registry, policyVars, disk, holder, prev, next, cmdVars, grants, retired, savedVars>>

\* Ownership, the restart or the health check fails, at any stage of it.
RestartFails(p) ==
  /\ At(p, "activate")
  /\ running' \in {running, disk, Down}
  /\ pc' = "rollback"
  /\ UNCHANGED <<registry, policyVars, disk, holder, prev, next, cmdVars, grants, retired, savedVars>>

(***************************************************************************)
(* After activation: approve mints the token and activates the record,     *)
(* import activates it, revoke tombstones the selected records.            *)
(***************************************************************************)
CommittedRegistry(c) ==
  CASE c.op \in {"approve", "import"} -> Activate(registry, c.req)
    [] c.op = "revoke"                -> MarkRevoked(registry, Selected(c.scope))
    [] OTHER                          -> registry

NewGrants(c) ==
  IF c.op = "approve" THEN {r \in {c.req} : Ssh(r.id)} ELSE {}

NewlyRetired(c) ==
  IF c.op = "revoke" THEN {AsCandidate(r) : r \in Selected(c.scope)} ELSE {}

Commit(p) ==
  /\ At(p, "commit")
  /\ registry' = CommittedRegistry(cmd[p])
  /\ grants' = grants \union NewGrants(cmd[p])
  /\ retired' = retired \union NewlyRetired(cmd[p])
  /\ Exit(p)
  /\ UNCHANGED <<policyVars, caVars, savedVars>>

\* The token or the save fails.  approve and import undo ca.json; revoke, whose
\* save comes after the install has returned, leaves it.
CommitFails(p) ==
  /\ At(p, "commit")
  /\ \/ /\ cmd[p].op \in {"approve", "import"}
        /\ registry' \in IF "fsync" \in Faults
                           THEN {registry, CommittedRegistry(cmd[p])} ELSE {registry}
        /\ pc' = "rollback"
        /\ UNCHANGED <<holder, prev, next, cmdVars>>
     \/ /\ cmd[p].op = "revoke"
        /\ Exit(p)
        /\ UNCHANGED registry
  /\ UNCHANGED <<policyVars, caVars, grants, retired, savedVars>>

Rollback(p) ==
  /\ At(p, "rollback")
  /\ disk' = prev
  /\ pc' = "restart"
  /\ UNCHANGED <<registry, policyVars, running, holder, prev, next, cmdVars, grants, retired, savedVars>>

RollbackFails(p) ==
  /\ At(p, "rollback")
  /\ Exit(p)
  /\ UNCHANGED <<registry, policyVars, caVars, grants, retired, savedVars>>

\* The rollback restarts step-ca without a health check, or fails to.
RollbackRestart(p) ==
  /\ At(p, "restart")
  /\ running' \in {running, disk, Down}
  /\ Exit(p)
  /\ UNCHANGED <<registry, policyVars, disk, grants, retired, savedVars>>

-----------------------------------------------------------------------------
(***************************************************************************)
(* What happens around the commands.                                       *)
(***************************************************************************)

\* A command dies; the kernel releases its lock.
Kill(p) ==
  /\ cmd[p] # Idle
  /\ IF holder = p
       THEN Exit(p)
       ELSE /\ cmd' = [cmd EXCEPT ![p] = Idle]
            /\ seen' = [seen EXCEPT ![p] = NoSnapshot]
            /\ UNCHANGED txnVars
  /\ UNCHANGED <<registry, policyVars, caVars, grants, retired, savedVars>>

\* step-ca stops, or comes up (a reboot, systemd, a restart job left behind by a
\* killed command) with the ca.json that is then on disk.
StepCaRestarts ==
  /\ running' \in {disk, Down} \ {running}
  /\ UNCHANGED <<registry, policyVars, disk, txnVars, cmdVars, grants, retired, savedVars>>

\* A grant is used at the running step-ca, or expires.
GrantEnds(g) ==
  /\ grants' = grants \ {g}
  /\ UNCHANGED <<registry, policyVars, caVars, txnVars, cmdVars, retired, savedVars>>

EditPolicy ==
  /\ declared' \in Policies \ {declared}
  /\ UNCHANGED <<registry, ledger, caVars, txnVars, cmdVars, grants, retired, savedVars>>

\* Restores happen while no command holds the lock.
MayRestore(store) ==
  /\ store \in Restores
  /\ holder = None
  /\ restores < MaxRestores

BackupRegistry ==
  /\ MayRestore("registry")
  /\ savedRegistry' = registry
  /\ savedRegistry # registry
  /\ UNCHANGED <<registry, policyVars, caVars, txnVars, cmdVars, grants, retired, savedConfig, restores>>

RestoreRegistry ==
  /\ MayRestore("registry")
  /\ registry' = savedRegistry
  /\ restores' = restores + 1
  /\ UNCHANGED <<policyVars, caVars, txnVars, cmdVars, grants, retired, savedRegistry, savedConfig>>

\* The policy checkout goes back to a revision that lacks some tombstones.
RevertLedger ==
  /\ MayRestore("ledger")
  /\ ledger' \in SUBSET ledger \ {ledger}
  /\ restores' = restores + 1
  /\ UNCHANGED <<registry, declared, caVars, txnVars, cmdVars, grants, retired, savedRegistry, savedConfig>>

\* An operator puts a backup of ca.json back and restarts step-ca.
RestoreCaJson ==
  /\ MayRestore("caJson")
  /\ savedConfig # NoConfig
  /\ disk' = savedConfig
  /\ running' = savedConfig
  /\ restores' = restores + 1
  /\ UNCHANGED <<registry, policyVars, txnVars, cmdVars, grants, retired, savedRegistry, savedConfig>>

Restore == RestoreRegistry \/ RevertLedger \/ RestoreCaJson

-----------------------------------------------------------------------------

Transaction(p) ==
  \/ Lock(p)
  \/ Approve(p) \/ Import(p) \/ Revoke(p) \/ ApplyCa(p)
  \/ InstallCaJson(p) \/ InstallFails(p) \/ InstallFailsLate(p)
  \/ RestartCa(p) \/ RestartFails(p)
  \/ Commit(p) \/ CommitFails(p)
  \/ Rollback(p) \/ RollbackFails(p) \/ RollbackRestart(p)

Next ==
  \/ \E p \in Proc : Transaction(p) \/ Kill(p) \/ \E c \in Command : LoadModel(p, c)
  \/ StepCaRestarts
  \/ \E g \in grants : GrantEnds(g)
  \/ EditPolicy
  \/ BackupRegistry
  \/ Restore

Spec == Init /\ [][Next]_vars
=============================================================================
