--------------------------- MODULE CaOriginProofs ---------------------------
(***************************************************************************)
(* Proofs about the CA-origin transactions, for any number of operators,   *)
(* identities, keys and commands: types; the registry accepts its own      *)
(* save; the ledger leads; retired enrollments stay dead; apply ca purges; *)
(* Active records are bound; reservations can be resumed; what is served   *)
(* is registered; a revocation is never refused.  The invariants build on  *)
(* one another: TypeOK, RegistryInv and RevocationInv need nothing else,   *)
(* TransactionInv is about the command in flight, and BoundInv, AgreesInv, *)
(* RegisteredInv and LedgerInv relate the stores to one another.           *)
(***************************************************************************)
EXTENDS CaOriginProperties, EnrollmentRegistryProofs

LEMMA CommandFields ==
  ASSUME NEW c \in Command
  PROVE  /\ c # Idle
         /\ c.op \in {"approve", "import", "revoke", "apply"}
         /\ c.op \in {"approve", "import"} => c.req \in Candidate
         /\ c.op = "revoke" => c.scope \in SUBSET Id
<1>1. c \in CommandType /\ Idle \notin CommandType
  BY CaOriginAssumption
<1> QED
  BY <1>1 DEF CommandType

\* Every edit of a ca.json is a ca.json.
LEMMA ConfigEdits ==
  ASSUME NEW cfg \in Config
  PROVE  /\ \A c \in Candidate : /\ ReconcileEnrollment(cfg, c) \in Config
                                 /\ BindExistingRenewalProvisioner(cfg, c) \in Config
         /\ \A scope \in SUBSET Id : RemoveMatching(cfg, scope) \in Config
         /\ \A led : RemoveRetired(cfg, led) \in Config
<1>1. /\ cfg.prov \in [Id -> Prov \union {NoProv}]
      /\ cfg.old \in SUBSET {"SSHPOP", "ACME"}
  BY DEF Config
<1>2. ASSUME NEW c \in Candidate
      PROVE  /\ ReconcileEnrollment(cfg, c) \in Config
             /\ BindExistingRenewalProvisioner(cfg, c) \in Config
  <2>1. Pinned(c) \in Prov
    BY DEF Pinned, Prov, Candidate, Ssh
  <2>2. [cfg.prov EXCEPT ![c.id] = Pinned(c)] \in [Id -> Prov \union {NoProv}]
    BY <1>1, <2>1
  <2>3. (IF KindOf[c.id] = "host" THEN cfg.old \ {"SSHPOP"} ELSE cfg.old)
          \in SUBSET {"SSHPOP", "ACME"}
    BY <1>1
  <2> QED
    BY <1>1, <2>2, <2>3 DEF ReconcileEnrollment, BindExistingRenewalProvisioner, Config
<1>3. ASSUME NEW scope \in SUBSET Id
      PROVE  RemoveMatching(cfg, scope) \in Config
  BY <1>1 DEF RemoveMatching, Config
<1>4. ASSUME NEW led
      PROVE  RemoveRetired(cfg, led) \in Config
  BY <1>1 DEF RemoveRetired, Config
<1> QED
  BY <1>2, <1>3, <1>4

LEMMA ExitType ==
  ASSUME TypeOK, NEW p \in Proc, Exit(p)
  PROVE  /\ holder' = None /\ pc' = "free"
         /\ prev' = NoConfig /\ next' = NoConfig
         /\ cmd' \in [Proc -> Command \union {Idle}]
         /\ seen' \in [Proc -> Snapshot]
  BY DEF TypeOK, Exit, NoSnapshot, Snapshot

\* The record sets that a transaction may commit keep their type.
LEMMA CommittedType ==
  ASSUME TypeOK, NEW c \in Command
  PROVE  /\ CommittedRegistry(c) \subseteq Record
         /\ NewGrants(c) \subseteq Candidate
         /\ NewlyRetired(c) \subseteq Candidate
<1>1. /\ c.op \in {"approve", "import", "revoke", "apply"}
      /\ c.op \in {"approve", "import"} => c.req \in Candidate
  BY CommandFields
<1>2. ASSUME NEW q \in Candidate
      PROVE  Activate(registry, q) \subseteq Record
  <2>1. AsRecord(q, "Active") \in Record
    BY DEF AsRecord, Record, Candidate, Status
  <2>2. ASSUME NEW r \in LiveOf(registry, q.id)
        PROVE  AsRecord(r, "Active") \in Record
    BY DEF TypeOK, LiveOf, Live, AsRecord, Record, Status
  <2> QED
    BY <2>1, <2>2 DEF TypeOK, Activate
<1>3. \A selected : MarkRevoked(registry, selected) \subseteq Record
  BY DEF TypeOK, MarkRevoked, AsRecord, Record, Status
<1>4. \A scope : {AsCandidate(r) : r \in Selected(scope)} \subseteq Candidate
  BY DEF TypeOK, Selected, AsCandidate, Record, Candidate
<1>5. CommittedRegistry(c) \subseteq Record
  BY <1>1, <1>2, <1>3 DEF TypeOK, CommittedRegistry
<1>6. NewGrants(c) \subseteq Candidate /\ NewlyRetired(c) \subseteq Candidate
  BY <1>1, <1>4 DEF NewGrants, NewlyRetired
<1> QED
  BY <1>5, <1>6

THEOREM TypeInit == Init => TypeOK
<1> SUFFICES ASSUME Init PROVE TypeOK
  OBVIOUS
<1> USE CaOriginAssumption
<1>1. cmd \in [Proc -> Command \union {Idle}] /\ seen \in [Proc -> Snapshot]
  BY DEF Init, NoSnapshot, Snapshot
<1>2. disk \in Config /\ running \in Config \union {Down} /\ restores \in 0 .. MaxRestores
  BY DEF Init
<1> QED
  BY <1>1, <1>2 DEF Init, TypeOK, Labels

THEOREM TypeNext == TypeOK /\ [Next]_vars => TypeOK'
<1> SUFFICES ASSUME TypeOK, [Next]_vars PROVE TypeOK'
  OBVIOUS
<1> USE CaOriginAssumption
<1>1. ASSUME NEW p \in Proc, NEW c \in Command, LoadModel(p, c)
      PROVE  TypeOK'
  <2>1. cmd' \in [Proc -> Command \union {Idle}] /\ seen' \in [Proc -> Snapshot]
    <3>1. declared \in SUBSET Id /\ ledger \in SUBSET Candidate
      BY DEF TypeOK
    <3>2. [ledger |-> ledger, declared |-> declared] \in Snapshot
      BY <3>1 DEF Snapshot
    <3> QED
      BY <1>1, <3>2 DEF TypeOK, LoadModel
  <2>2. holder # None => cmd'[holder] # Idle
    BY <1>1, CommandFields DEF TypeOK, LoadModel
  <2> QED
    BY <1>1, <2>1, <2>2
    DEF TypeOK, LoadModel, policyVars, caVars, txnVars, savedVars
<1>2. ASSUME NEW p \in Proc, Lock(p)
      PROVE  TypeOK'
  BY <1>2 DEF TypeOK, Lock, policyVars, caVars, cmdVars, savedVars, Labels
<1>3. ASSUME NEW p \in Proc, Approve(p)
      PROVE  TypeOK'
  <2>1. cmd[p] \in Command /\ cmd[p].req \in Candidate
    BY <1>3, CommandFields DEF TypeOK, Approve, AtBegin, At
  <2>2. CASE registry' = Reserve(registry, cmd[p].req) /\ Propose(ReconcileEnrollment(disk, cmd[p].req))
    <3>1. Reserve(registry, cmd[p].req) \subseteq Record
      BY <2>1 DEF TypeOK, Reserve, AsRecord, Record, Candidate, Status
    <3>2. ReconcileEnrollment(disk, cmd[p].req) \in Config
      BY <2>1, ConfigEdits DEF TypeOK
    <3> QED
      BY <1>3, <2>2, <3>1, <3>2 DEF TypeOK, Approve, AtBegin, At, Propose,
         policyVars, caVars, cmdVars, savedVars, Labels
  <2>3. CASE Exit(p) /\ registry' = registry
    BY <1>3, <2>3, ExitType DEF TypeOK, Approve, policyVars, caVars, savedVars, Labels
  <2> QED
    BY <1>3, <2>2, <2>3 DEF Approve
<1>4. ASSUME NEW p \in Proc, Import(p)
      PROVE  TypeOK'
  <2>1. cmd[p] \in Command /\ cmd[p].req \in Candidate
    BY <1>4, CommandFields DEF TypeOK, Import, AtBegin, At
  <2>2. CASE Propose(BindExistingRenewalProvisioner(disk, cmd[p].req))
    <3>1. BindExistingRenewalProvisioner(disk, cmd[p].req) \in Config
      BY <2>1, ConfigEdits DEF TypeOK
    <3> QED
      BY <1>4, <2>2, <3>1 DEF TypeOK, Import, AtBegin, At, Propose,
         policyVars, caVars, cmdVars, savedVars, Labels
  <2>3. CASE Exit(p)
    BY <1>4, <2>3, ExitType DEF TypeOK, Import, policyVars, caVars, savedVars, Labels
  <2> QED
    BY <1>4, <2>2, <2>3 DEF Import
<1>5. ASSUME NEW p \in Proc, Revoke(p)
      PROVE  TypeOK'
  <2>1. cmd[p] \in Command /\ cmd[p].scope \in SUBSET Id
    BY <1>5, CommandFields DEF TypeOK, Revoke, AtBegin, At
  <2>2. ledger' \subseteq Candidate
    <3>1. PrepareRevocationPolicyUpdate(p, cmd[p].scope) \subseteq Candidate
      BY DEF TypeOK, PrepareRevocationPolicyUpdate, LedgerToExtend, LedgerWith, Selected,
             AsCandidate, Record, Candidate
    <3> QED
      BY <1>5, <3>1 DEF TypeOK, Revoke
  <2>3. CASE Propose(RemoveMatching(disk, cmd[p].scope))
    <3>1. RemoveMatching(disk, cmd[p].scope) \in Config
      BY <2>1, ConfigEdits DEF TypeOK
    <3> QED
      BY <1>5, <2>2, <2>3, <3>1 DEF TypeOK, Revoke, AtBegin, At, Propose,
         caVars, cmdVars, savedVars, Labels
  <2>4. CASE Exit(p)
    BY <1>5, <2>2, <2>4, ExitType DEF TypeOK, Revoke, caVars, savedVars, Labels
  <2> QED
    BY <1>5, <2>3, <2>4 DEF Revoke
<1>6. ASSUME NEW p \in Proc, ApplyCa(p)
      PROVE  TypeOK'
  <2>1. CASE Propose(RemoveRetired(disk, seen[p].ledger))
    <3>1. RemoveRetired(disk, seen[p].ledger) \in Config
      BY ConfigEdits DEF TypeOK
    <3> QED
      BY <1>6, <2>1, <3>1 DEF TypeOK, ApplyCa, AtBegin, At, Propose,
         policyVars, caVars, cmdVars, savedVars, Labels
  <2>2. CASE Exit(p)
    BY <1>6, <2>2, ExitType DEF TypeOK, ApplyCa, policyVars, caVars, savedVars, Labels
  <2> QED
    BY <1>6, <2>1, <2>2 DEF ApplyCa
<1>7. ASSUME NEW p \in Proc, InstallCaJson(p)
      PROVE  TypeOK'
  BY <1>7 DEF TypeOK, InstallCaJson, At, policyVars, cmdVars, Labels
<1>8. ASSUME NEW p \in Proc, InstallFails(p) \/ RollbackFails(p)
      PROVE  TypeOK'
  BY <1>8, ExitType DEF TypeOK, InstallFails, RollbackFails, policyVars, caVars, savedVars, Labels
<1>9. ASSUME NEW p \in Proc, InstallFailsLate(p)
      PROVE  TypeOK'
  BY <1>9, ExitType DEF TypeOK, InstallFailsLate, At, policyVars, savedVars, Labels
<1>10. ASSUME NEW p \in Proc, RestartCa(p) \/ RestartFails(p)
       PROVE  TypeOK'
  BY <1>10 DEF TypeOK, RestartCa, RestartFails, At, policyVars, cmdVars, savedVars, Labels
<1>11. ASSUME NEW p \in Proc, Commit(p)
       PROVE  TypeOK'
  <2>1. cmd[p] \in Command
    BY <1>11 DEF TypeOK, Commit, At
  <2>2. registry' \subseteq Record /\ grants' \subseteq Candidate /\ retired' \subseteq Candidate
    BY <1>11, <2>1, CommittedType DEF TypeOK, Commit
  <2> QED
    BY <1>11, <2>2, ExitType DEF TypeOK, Commit, policyVars, caVars, savedVars, Labels
<1>12. ASSUME NEW p \in Proc, CommitFails(p)
       PROVE  TypeOK'
  <2>1. cmd[p] \in Command
    BY <1>12 DEF TypeOK, CommitFails, At
  <2>2. registry' \subseteq Record
    BY <1>12, <2>1, CommittedType DEF TypeOK, CommitFails
  <2>3. CASE pc' = "rollback" /\ UNCHANGED <<holder, prev, next, cmdVars>>
    BY <1>12, <2>2, <2>3 DEF TypeOK, CommitFails, At, policyVars, caVars, cmdVars, savedVars, Labels
  <2>4. CASE Exit(p)
    BY <1>12, <2>2, <2>4, ExitType DEF TypeOK, CommitFails, policyVars, caVars, savedVars, Labels
  <2> QED
    BY <1>12, <2>3, <2>4 DEF CommitFails
<1>13. ASSUME NEW p \in Proc, Rollback(p)
       PROVE  TypeOK'
  BY <1>13 DEF TypeOK, Rollback, At, policyVars, cmdVars, savedVars, Labels
<1>14. ASSUME NEW p \in Proc, RollbackRestart(p)
       PROVE  TypeOK'
  BY <1>14, ExitType DEF TypeOK, RollbackRestart, policyVars, savedVars, Labels
<1>15. ASSUME NEW p \in Proc, Kill(p)
       PROVE  TypeOK'
  <2>1. CASE holder = p
    BY <1>15, <2>1, ExitType DEF TypeOK, Kill, policyVars, caVars, savedVars, Labels
  <2>2. CASE holder # p
    <3>1. cmd' \in [Proc -> Command \union {Idle}] /\ seen' \in [Proc -> Snapshot]
      BY <1>15, <2>2 DEF TypeOK, Kill, NoSnapshot, Snapshot
    <3>2. holder # None => cmd'[holder] # Idle
      BY <1>15, <2>2 DEF TypeOK, Kill
    <3> QED
      BY <1>15, <2>2, <3>1, <3>2 DEF TypeOK, Kill, policyVars, caVars, txnVars, savedVars
  <2> QED
    BY <2>1, <2>2
<1>16. CASE StepCaRestarts
  BY <1>16 DEF TypeOK, StepCaRestarts, policyVars, txnVars, cmdVars, savedVars
<1>17. ASSUME NEW g \in grants, GrantEnds(g)
       PROVE  TypeOK'
  BY <1>17 DEF TypeOK, GrantEnds, policyVars, caVars, txnVars, cmdVars, savedVars
<1>18. CASE EditPolicy
  BY <1>18 DEF TypeOK, EditPolicy, caVars, txnVars, cmdVars, savedVars
<1>19. CASE BackupRegistry
  BY <1>19 DEF TypeOK, BackupRegistry, policyVars, caVars, txnVars, cmdVars
<1>20. CASE Restore
  <2>1. restores' \in 0 .. MaxRestores
    BY <1>20 DEF TypeOK, Restore, RestoreRegistry, RevertLedger, RestoreCaJson, MayRestore
  <2> QED
    BY <1>20, <2>1 DEF TypeOK, Restore, RestoreRegistry, RevertLedger, RestoreCaJson,
       policyVars, caVars, txnVars, cmdVars
<1>21. CASE UNCHANGED vars
  BY <1>21 DEF TypeOK, vars, policyVars, caVars, txnVars, cmdVars, savedVars
<1> QED
  BY <1>1, <1>2, <1>3, <1>4, <1>5, <1>6, <1>7, <1>8, <1>9, <1>10, <1>11, <1>12, <1>13,
     <1>14, <1>15, <1>16, <1>17, <1>18, <1>19, <1>20, <1>21 DEF Next, Transaction

\* Every reachable state of the CA origin is well typed.
THEOREM TypeCorrect == Spec => []TypeOK
  BY TypeInit, TypeNext, PTL DEF Spec

-----------------------------------------------------------------------------
(***************************************************************************)
(* The registry.  RegistrySavable is not inductive: that the committed     *)
(* registry is valid follows from the check made when the transaction      *)
(* began, and only because nothing touches the registry while the lock is  *)
(* held does the check still hold when the record is activated.            *)
(***************************************************************************)
Enrolling == holder # None /\ cmd[holder].op \in {"approve", "import"}

RegistryInv ==
  /\ Validate(registry)
  /\ Validate(savedRegistry)
  /\ Enrolling /\ pc \in {"install", "activate", "commit"} => CheckCandidate(registry, cmd[holder].req)

\* What a commit saves is valid and keeps every tombstone.
LEMMA CommittedValid ==
  ASSUME TypeOK, RegistryInv, pc = "commit"
  PROVE  /\ Validate(CommittedRegistry(cmd[holder]))
         /\ \A r \in registry : r.status = "Revoked" => r \in CommittedRegistry(cmd[holder])
<1> DEFINE c == cmd[holder]
<1>1. c \in Command /\ c.op \in {"approve", "import", "revoke", "apply"} /\ holder # None
  BY CommandFields DEF TypeOK
<1>2. registry \in SUBSET Record /\ Validate(registry)
  BY DEF TypeOK, RegistryInv
<1>3. CASE c.op \in {"approve", "import"}
  <2>1. c.req \in Candidate /\ CheckCandidate(registry, c.req)
    BY <1>1, <1>3, CommandFields DEF RegistryInv, Enrolling
  <2>2. CommittedRegistry(c) = Activate(registry, c.req)
    BY <1>3 DEF CommittedRegistry
  <2> QED
    BY <1>2, <2>1, <2>2, ActivateValid
<1>4. CASE c.op = "revoke"
  <2>1. CommittedRegistry(c) = MarkRevoked(registry, Selected(c.scope))
    BY <1>4 DEF CommittedRegistry
  <2> QED
    BY <1>2, <2>1, MarkRevokedValid
<1>5. CASE c.op = "apply"
  BY <1>2, <1>5 DEF CommittedRegistry
<1> QED
  BY <1>1, <1>3, <1>4, <1>5

\* Only a process without a transaction changes cmd apart from Exit.
LEMMA OthersLeaveTransaction ==
  ASSUME TypeOK, NEW p \in Proc,
         Lock(p) \/ (\E c \in Command : LoadModel(p, c)) \/ (Kill(p) /\ holder # p)
  PROVE  /\ UNCHANGED <<registry, ledger, disk, running, retired, savedRegistry>>
         /\ UNCHANGED <<prev, next>>
         /\ \/ holder' # None /\ pc' = "begin"
            \/ holder' = None /\ pc' = "free"
            \/ /\ UNCHANGED <<holder, pc>>
               /\ holder # None => cmd'[holder] = cmd[holder]
  BY CaOriginAssumption DEF TypeOK, Lock, LoadModel, Kill, policyVars, caVars, txnVars, cmdVars, savedVars

THEOREM RegistryInvInit == Init => RegistryInv
  BY DEF Init, RegistryInv, Validate, Enrolling

THEOREM RegistryInvNext == TypeOK /\ RegistryInv /\ [Next]_vars => RegistryInv'
<1> SUFFICES ASSUME TypeOK, RegistryInv, [Next]_vars PROVE RegistryInv'
  OBVIOUS
<1> USE CaOriginAssumption
<1>1. ASSUME NEW p \in Proc, Approve(p)
      PROVE  RegistryInv'
  <2> DEFINE c == cmd[p].req
  <2>1. c \in Candidate /\ registry \in SUBSET Record /\ holder = p
    BY <1>1, CommandFields DEF TypeOK, Approve, AtBegin, At
  <2>2. CASE Reservable(c) /\ registry' = Reserve(registry, c) /\ Propose(ReconcileEnrollment(disk, c))
    <3>1. Validate(registry') /\ CheckCandidate(registry', c)
      BY <2>1, <2>2, ReserveValid DEF RegistryInv, Reservable
    <3> QED
      BY <1>1, <2>1, <2>2, <3>1 DEF RegistryInv, Enrolling, Propose, Approve, savedVars, cmdVars
  <2>3. CASE Exit(p) /\ UNCHANGED registry
    BY <1>1, <2>3 DEF RegistryInv, Enrolling, Exit, Approve, savedVars
  <2> QED
    BY <1>1, <2>2, <2>3 DEF Approve
<1>2. ASSUME NEW p \in Proc, Import(p)
      PROVE  RegistryInv'
  <2>1. CASE Importable(cmd[p].req) /\ Propose(BindExistingRenewalProvisioner(disk, cmd[p].req))
    BY <1>2, <2>1 DEF RegistryInv, Enrolling, Propose, Import, AtBegin, At, Importable, savedVars, cmdVars
  <2>2. CASE Exit(p)
    BY <1>2, <2>2 DEF RegistryInv, Enrolling, Exit, Import, savedVars
  <2> QED
    BY <1>2, <2>1, <2>2 DEF Import
<1>3. ASSUME NEW p \in Proc, Revoke(p)
      PROVE  RegistryInv'
  <2>1. UNCHANGED <<registry, savedRegistry>> /\ holder = p /\ cmd[p].op = "revoke"
    BY <1>3 DEF Revoke, AtBegin, At, savedVars
  <2>2. CASE \E cfg : Propose(cfg)
    BY <2>1, <2>2 DEF RegistryInv, Enrolling, Propose, cmdVars
  <2>3. CASE Exit(p)
    BY <2>1, <2>3 DEF RegistryInv, Enrolling, Exit
  <2> QED
    BY <1>3, <2>2, <2>3 DEF Revoke
<1>4. ASSUME NEW p \in Proc, ApplyCa(p)
      PROVE  RegistryInv'
  <2>1. UNCHANGED <<registry, savedRegistry>> /\ holder = p /\ cmd[p].op = "apply"
    BY <1>4 DEF ApplyCa, AtBegin, At, savedVars
  <2>2. CASE \E cfg : Propose(cfg)
    BY <2>1, <2>2 DEF RegistryInv, Enrolling, Propose, cmdVars
  <2>3. CASE Exit(p)
    BY <2>1, <2>3 DEF RegistryInv, Enrolling, Exit
  <2> QED
    BY <1>4, <2>2, <2>3 DEF ApplyCa
<1>5. ASSUME NEW p \in Proc,
             InstallCaJson(p) \/ RestartCa(p) \/ RestartFails(p) \/ Rollback(p)
      PROVE  RegistryInv'
  BY <1>5 DEF RegistryInv, Enrolling, InstallCaJson, RestartCa, RestartFails, Rollback, At, cmdVars, savedVars
<1>6. ASSUME NEW p \in Proc,
             \/ InstallFails(p) \/ InstallFailsLate(p) \/ RollbackFails(p) \/ RollbackRestart(p)
             \/ Kill(p) /\ holder = p
      PROVE  RegistryInv'
  BY <1>6 DEF RegistryInv, Enrolling, InstallFails, InstallFailsLate, RollbackFails,
     RollbackRestart, Kill, Exit, savedVars
<1>7. ASSUME NEW p \in Proc, Commit(p)
      PROVE  RegistryInv'
  <2>1. Validate(registry')
    BY <1>7, CommittedValid DEF Commit, At
  <2> QED
    BY <1>7, <2>1 DEF RegistryInv, Enrolling, Commit, Exit, savedVars
<1>8. ASSUME NEW p \in Proc, CommitFails(p)
      PROVE  RegistryInv'
  <2>1. Validate(registry')
    BY <1>8, CommittedValid DEF CommitFails, At, RegistryInv
  <2>2. pc' \in {"rollback", "free"} /\ savedRegistry' = savedRegistry
    BY <1>8 DEF CommitFails, Exit, savedVars
  <2> QED
    BY <2>1, <2>2 DEF RegistryInv
<1>9. ASSUME NEW p \in Proc,
             Lock(p) \/ (\E c \in Command : LoadModel(p, c)) \/ (Kill(p) /\ holder # p)
      PROVE  RegistryInv'
  BY <1>9, OthersLeaveTransaction DEF RegistryInv, Enrolling
<1>10. CASE StepCaRestarts \/ (\E g \in grants : GrantEnds(g)) \/ EditPolicy \/ UNCHANGED vars
  BY <1>10 DEF RegistryInv, Enrolling, StepCaRestarts, GrantEnds, EditPolicy, vars, txnVars, cmdVars, savedVars
<1>11. CASE BackupRegistry \/ Restore
  <2>1. holder' = None /\ {registry', savedRegistry'} \subseteq {registry, savedRegistry}
    BY <1>11 DEF BackupRegistry, Restore, RestoreRegistry, RevertLedger, RestoreCaJson, MayRestore,
       txnVars, savedVars
  <2> QED
    BY <2>1 DEF RegistryInv, Enrolling
<1> QED
  BY <1>1, <1>2, <1>3, <1>4, <1>5, <1>6, <1>7, <1>8, <1>9, <1>10, <1>11 DEF Next, Transaction

\* A command that reaches its commit can always save the registry.
THEOREM RegistryAlwaysSavable == Spec => []RegistrySavable
<1>1. TypeOK /\ RegistryInv => RegistrySavable
  BY CommittedValid DEF RegistrySavable, RegistryInv
<1> QED
  BY TypeInit, TypeNext, RegistryInvInit, RegistryInvNext, <1>1, PTL DEF Spec

-----------------------------------------------------------------------------
(***************************************************************************)
(* The revocation ledger.  A revocation that has passed its first phase    *)
(* has every selected key in the ledger, and what it installs differs from *)
(* what it found only in the provisioners of its scope.                    *)
(***************************************************************************)
Revoking == holder # None /\ cmd[holder].op = "revoke" /\ pc # "begin"

SameOutside(cfg, other, scope) == \A i \in Id \ scope : cfg.prov[i] = other.prov[i]

RevocationInv ==
  Revoking =>
    LET scope == cmd[holder].scope IN
      /\ \A r \in Selected(scope) : KeysRevoked(ledger, r)
      /\ \A i \in scope : next.prov[i] = NoProv
      /\ pc = "install" => SameOutside(next, disk, scope)
      /\ pc \in {"activate", "commit", "rollback"} => disk = next /\ SameOutside(prev, disk, scope)
      /\ pc = "commit" => running \in {disk, Down}

LEMMA LedgerCoversSelected ==
  ASSUME TypeOK, NEW scope \in SUBSET Id
  PROVE  /\ ledger \subseteq LedgerWith(ledger, Selected(scope))
         /\ \A r \in Selected(scope) : KeysRevoked(LedgerWith(ledger, Selected(scope)), r)
<1>1. ASSUME NEW r \in Selected(scope)
      PROVE  KeysRevoked(LedgerWith(ledger, Selected(scope)), r)
  <2>1. CASE \E e \in ledger : KindOf[e.id] = KindOf[r.id] /\ e.key = r.key
    BY <2>1 DEF KeysRevoked, LedgerWith, SharesKey
  <2>2. CASE ~ \E e \in ledger : KindOf[e.id] = KindOf[r.id] /\ e.key = r.key
    <3>1. AsCandidate(r) \in LedgerWith(ledger, Selected(scope))
      BY <2>2 DEF LedgerWith
    <3>2. SharesKey(AsCandidate(r), r)
      BY DEF SharesKey, AsCandidate
    <3> QED
      BY <3>1, <3>2 DEF KeysRevoked
  <2> QED
    BY <2>1, <2>2
<1> QED
  BY <1>1 DEF LedgerWith

THEOREM RevocationInvInit == Init => RevocationInv
  BY DEF Init, RevocationInv, Revoking

THEOREM RevocationInvNext == TypeOK /\ RevocationInv /\ [Next]_vars => RevocationInv'
<1> SUFFICES ASSUME TypeOK, RevocationInv, [Next]_vars PROVE RevocationInv'
  OBVIOUS
<1> USE CaOriginAssumption
<1>1. ASSUME NEW p \in Proc, Revoke(p)
      PROVE  RevocationInv'
  <2> DEFINE scope == cmd[p].scope
  <2>1. scope \in SUBSET Id /\ holder = p /\ UNCHANGED <<registry, disk, running>>
    BY <1>1, CommandFields DEF TypeOK, Revoke, AtBegin, At, caVars
  <2>2. CASE ledger' = LedgerWith(ledger, Selected(scope)) /\ Propose(RemoveMatching(disk, scope))
    <3>1. \A r \in Selected(scope) : KeysRevoked(ledger', r)
      BY <2>1, <2>2, LedgerCoversSelected
    <3>2. /\ \A i \in scope : RemoveMatching(disk, scope).prov[i] = NoProv
          /\ SameOutside(RemoveMatching(disk, scope), disk, scope)
      BY <2>1 DEF RemoveMatching, SameOutside
    <3> QED
      BY <2>1, <2>2, <3>1, <3>2 DEF RevocationInv, Revoking, Propose, cmdVars, Selected, SameOutside
  <2>3. CASE Exit(p)
    BY <2>3 DEF RevocationInv, Revoking, Exit
  <2> QED
    BY <1>1, <2>2, <2>3 DEF Revoke, PrepareRevocationPolicyUpdate, LedgerToExtend
<1>2. ASSUME NEW p \in Proc, Approve(p) \/ Import(p) \/ ApplyCa(p)
      PROVE  RevocationInv'
  <2>1. holder = p /\ cmd[p].op # "revoke"
    BY <1>2 DEF Approve, Import, ApplyCa, AtBegin, At
  <2>2. (\E cfg : Propose(cfg)) \/ Exit(p)
    BY <1>2 DEF Approve, Import, ApplyCa
  <2> QED
    BY <2>1, <2>2 DEF RevocationInv, Revoking, Propose, Exit, cmdVars
<1>3. ASSUME NEW p \in Proc, InstallCaJson(p)
      PROVE  RevocationInv'
  BY <1>3 DEF RevocationInv, Revoking, InstallCaJson, At, policyVars, cmdVars, Selected, SameOutside
<1>4. ASSUME NEW p \in Proc, RestartCa(p) \/ RestartFails(p)
      PROVE  RevocationInv'
  BY <1>4 DEF RevocationInv, Revoking, RestartCa, RestartFails, At, policyVars, cmdVars, Selected, SameOutside
<1>5. ASSUME NEW p \in Proc, Rollback(p)
      PROVE  RevocationInv'
  BY <1>5 DEF RevocationInv, Revoking, Rollback, At, policyVars, cmdVars, Selected
<1>6. ASSUME NEW p \in Proc,
             \/ InstallFails(p) \/ InstallFailsLate(p) \/ RollbackFails(p) \/ RollbackRestart(p)
             \/ Commit(p) \/ (Kill(p) /\ holder = p)
      PROVE  RevocationInv'
  <2>1. Exit(p)
    BY <1>6 DEF InstallFails, InstallFailsLate, RollbackFails, RollbackRestart, Commit, Kill
  <2> QED
    BY <2>1 DEF RevocationInv, Revoking, Exit
<1>7. ASSUME NEW p \in Proc, CommitFails(p)
      PROVE  RevocationInv'
  BY <1>7 DEF RevocationInv, Revoking, CommitFails, At, Exit, cmdVars
<1>8. ASSUME NEW p \in Proc,
             Lock(p) \/ (\E c \in Command : LoadModel(p, c)) \/ (Kill(p) /\ holder # p)
      PROVE  RevocationInv'
  BY <1>8, OthersLeaveTransaction DEF RevocationInv, Revoking, Selected, SameOutside
<1>9. CASE StepCaRestarts
  BY <1>9 DEF RevocationInv, Revoking, StepCaRestarts, policyVars, txnVars, cmdVars, Selected, SameOutside
<1>10. CASE (\E g \in grants : GrantEnds(g)) \/ EditPolicy \/ UNCHANGED vars
  BY <1>10 DEF RevocationInv, Revoking, GrantEnds, EditPolicy, vars, policyVars, caVars, txnVars, cmdVars,
     Selected, SameOutside
<1>11. CASE BackupRegistry \/ Restore
  <2>1. holder' = None
    BY <1>11 DEF BackupRegistry, Restore, RestoreRegistry, RevertLedger, RestoreCaJson, MayRestore, txnVars
  <2> QED
    BY <2>1 DEF RevocationInv, Revoking
<1> QED
  BY <1>1, <1>2, <1>3, <1>4, <1>5, <1>6, <1>7, <1>8, <1>9, <1>10, <1>11 DEF Next, Transaction

THEOREM RevocationInvariant == Spec => [](TypeOK /\ RevocationInv)
  BY TypeInit, TypeNext, RevocationInvInit, RevocationInvNext, PTL DEF Spec

\* No command ever drops a tombstone from the ledger.
THEOREM LedgerMonotone == Spec => LedgerKeepsTombstones
<1>1. [Next]_vars => [RevertLedger \/ ledger \subseteq ledger']_vars
  <2> SUFFICES ASSUME [Next]_vars, ~RevertLedger PROVE ledger \subseteq ledger'
    OBVIOUS
  <2>1. ASSUME NEW p \in Proc, Revoke(p)
        PROVE  ledger \subseteq ledger'
    BY <2>1 DEF Revoke, PrepareRevocationPolicyUpdate, LedgerToExtend, LedgerWith
  <2>2. ASSUME NEW p \in Proc, Transaction(p) \/ Kill(p), ~Revoke(p)
        PROVE  ledger' = ledger
    BY <2>2 DEF Transaction, Lock, Approve, Import, ApplyCa, InstallCaJson, InstallFails, InstallFailsLate,
       RestartCa, RestartFails, Commit, CommitFails, Rollback, RollbackFails, RollbackRestart, Kill, policyVars
  <2>3. ASSUME NEW p \in Proc, NEW c \in Command, LoadModel(p, c)
        PROVE  ledger' = ledger
    BY <2>3 DEF LoadModel, policyVars
  <2>4. CASE \/ StepCaRestarts \/ (\E g \in grants : GrantEnds(g)) \/ EditPolicy \/ BackupRegistry
             \/ RestoreRegistry \/ RestoreCaJson \/ UNCHANGED vars
    BY <2>4 DEF StepCaRestarts, GrantEnds, EditPolicy, BackupRegistry, RestoreRegistry, RestoreCaJson,
       policyVars, vars
  <2> QED
    BY <2>1, <2>2, <2>3, <2>4 DEF Next, Restore
<1> QED
  BY <1>1, PTL DEF Spec, LedgerKeepsTombstones

\* A revocation cuts nothing off, and tombstones no record, ahead of the ledger.
THEOREM LedgerAlwaysLeads == Spec => LedgerLeads
<1> DEFINE Leads ==
      holder # None /\ cmd[holder].op = "revoke" =>
        \A r \in registry :
          \/ KeysRevoked(ledger, r)
          \/ /\ disk.prov[r.id] # NoProv => disk'.prov[r.id] # NoProv
             /\ r \in registry'
<1>1. TypeOK /\ RevocationInv /\ [Next]_vars => [Leads]_vars
  <2> SUFFICES ASSUME TypeOK, RevocationInv, [Next]_vars,
                      holder # None, cmd[holder].op = "revoke",
                      NEW r \in registry, ~KeysRevoked(ledger, r)
               PROVE  /\ disk.prov[r.id] # NoProv => disk'.prov[r.id] # NoProv
                      /\ r \in registry'
    OBVIOUS
  <2> USE CaOriginAssumption
  <2>1. r.id \in Id
    BY DEF TypeOK, Record
  <2>2. pc # "begin" => /\ r \notin Selected(cmd[holder].scope)
                        /\ r.id \notin cmd[holder].scope
    BY DEF RevocationInv, Revoking, Selected
  <2>3. ASSUME NEW p \in Proc, InstallCaJson(p) \/ InstallFailsLate(p)
        PROVE  /\ disk.prov[r.id] # NoProv => disk'.prov[r.id] # NoProv
               /\ r \in registry'
    BY <2>1, <2>2, <2>3 DEF RevocationInv, Revoking, InstallCaJson, InstallFailsLate, At, SameOutside
  <2>4. ASSUME NEW p \in Proc, Rollback(p)
        PROVE  /\ disk.prov[r.id] # NoProv => disk'.prov[r.id] # NoProv
               /\ r \in registry'
    BY <2>1, <2>2, <2>4 DEF RevocationInv, Revoking, Rollback, At, SameOutside
  <2>5. ASSUME NEW p \in Proc, Commit(p)
        PROVE  /\ disk.prov[r.id] # NoProv => disk'.prov[r.id] # NoProv
               /\ r \in registry'
    <3> DEFINE selected == Selected(cmd[p].scope)
    <3>1. holder = p /\ pc = "commit" /\ registry' = MarkRevoked(registry, selected) /\ disk' = disk
      BY <2>5 DEF Commit, At, CommittedRegistry, caVars
    <3>2. \A s \in selected : KeysRevoked(ledger, s)
      BY <3>1 DEF RevocationInv, Revoking
    <3>3. ~ \E s \in selected : SameKeys(r, s)
      BY <3>2 DEF KeysRevoked, SharesKey, SameKeys
    <3> QED
      BY <3>1, <3>3 DEF MarkRevoked
  <2>6. ASSUME NEW p \in Proc, Revoke(p) \/ Kill(p) \/ (\E c \in Command : LoadModel(p, c))
        PROVE  disk' = disk /\ registry' = registry
    BY <2>6 DEF Revoke, Kill, LoadModel, caVars
  <2>7. ASSUME NEW p \in Proc,
               \/ InstallFails(p) \/ RestartCa(p) \/ RestartFails(p) \/ CommitFails(p)
               \/ RollbackFails(p) \/ RollbackRestart(p)
        PROVE  disk' = disk /\ registry' = registry
    BY <2>7 DEF InstallFails, RestartCa, RestartFails, CommitFails, RollbackFails, RollbackRestart, At, caVars
  <2>8. ASSUME NEW p \in Proc
        PROVE  ~Lock(p) /\ ~Approve(p) /\ ~Import(p) /\ ~ApplyCa(p)
    BY DEF Lock, Approve, Import, ApplyCa, AtBegin, At
  <2>9. CASE StepCaRestarts \/ (\E g \in grants : GrantEnds(g)) \/ EditPolicy \/ UNCHANGED vars
    BY <2>9 DEF StepCaRestarts, GrantEnds, EditPolicy, vars, caVars
  <2>10. ~BackupRegistry /\ ~Restore
    BY DEF BackupRegistry, Restore, RestoreRegistry, RevertLedger, RestoreCaJson, MayRestore
  <2> QED
    BY <2>3, <2>4, <2>5, <2>6, <2>7, <2>8, <2>9, <2>10 DEF Next, Transaction
<1> QED
  BY RevocationInvariant, <1>1, PTL DEF Spec, LedgerLeads

-----------------------------------------------------------------------------
(***************************************************************************)
(* Retired enrollments, when neither the registry nor ca.json is put back  *)
(* to an older state: the ledger alone may lose tombstones.  The registry  *)
(* then still holds the tombstone, so a command that puts a provisioner    *)
(* into ca.json has checked its keys against it; and ca.json cannot get a  *)
(* retired key back from a rollback, because a revocation ends when it     *)
(* completes and every other command starts from a clean ca.json.          *)
(***************************************************************************)
Clean(cfg, t) == cfg # NoConfig => ~Carries(cfg, t)

RetiredInv ==
  \A t \in retired :
    /\ AsRecord(t, "Revoked") \in registry
    /\ Clean(disk, t) /\ Clean(running, t) /\ Clean(prev, t) /\ Clean(next, t)

\* An edit of ca.json brings no key but the candidate's into it.
LEMMA EditsStayClean ==
  ASSUME NEW cfg \in Config, NEW t \in Candidate, ~Carries(cfg, t)
  PROVE  /\ \A c \in Candidate : ~SharesKey(c, t) =>
              /\ ~Carries(ReconcileEnrollment(cfg, c), t)
              /\ ~Carries(BindExistingRenewalProvisioner(cfg, c), t)
         /\ \A scope : ~Carries(RemoveMatching(cfg, scope), t)
         /\ \A led : ~Carries(RemoveRetired(cfg, led), t)
<1>1. /\ cfg # Down /\ cfg.prov \in [Id -> Prov \union {NoProv}] /\ t.id \in Id
      /\ cfg.prov[t.id] # NoProv => cfg.prov[t.id].ren # t.ren /\ cfg.prov[t.id].key # t.key
  BY CaOriginAssumption DEF Carries, Config, Candidate
<1>2. ASSUME NEW c \in Candidate, ~SharesKey(c, t)
      PROVE  /\ ~Carries(ReconcileEnrollment(cfg, c), t)
             /\ ~Carries(BindExistingRenewalProvisioner(cfg, c), t)
  <2>1. Pinned(c).ren # t.ren /\ Pinned(c).key # t.key
    BY <1>2 DEF Pinned, SharesKey
  <2> QED
    BY <1>1, <2>1 DEF Carries, ReconcileEnrollment, BindExistingRenewalProvisioner
<1>3. ASSUME NEW scope
      PROVE  ~Carries(RemoveMatching(cfg, scope), t)
  BY <1>1 DEF Carries, RemoveMatching
<1>4. ASSUME NEW led
      PROVE  ~Carries(RemoveRetired(cfg, led), t)
  BY <1>1 DEF Carries, RemoveRetired
<1> QED
  BY <1>2, <1>3, <1>4

\* A candidate that passes the registry's check shares no key with a tombstone.
LEMMA CheckedAvoidsTombstones ==
  ASSUME NEW reg, NEW c, NEW t, CheckCandidate(reg, c), AsRecord(t, "Revoked") \in reg
  PROVE  ~SharesKey(c, t)
  BY DEF CheckCandidate, SharesKey, AsRecord

\* The keys that a committed revocation retires are out of ca.json and step-ca.
LEMMA NewlyRetiredGone ==
  ASSUME TypeOK, RegistryInv, RevocationInv, NEW p \in Proc, Commit(p),
         NEW t \in NewlyRetired(cmd[p])
  PROVE  AsRecord(t, "Revoked") \in registry' /\ ~Carries(disk, t) /\ ~Carries(running, t)
<1> DEFINE scope == cmd[p].scope
<1>1. holder = p /\ pc = "commit" /\ holder # None /\ cmd[p].op = "revoke"
  BY CaOriginAssumption DEF Commit, At, NewlyRetired
<1>2. PICK r \in Selected(scope) : t = AsCandidate(r)
  BY <1>1 DEF NewlyRetired
<1>3. registry' = MarkRevoked(registry, Selected(scope)) /\ r \in registry
  BY <1>1 DEF Commit, CommittedRegistry, Selected
<1>4. AsRecord(t, "Revoked") = AsRecord(r, "Revoked")
  BY <1>2 DEF AsRecord, AsCandidate
<1>5. AsRecord(t, "Revoked") \in registry'
  BY <1>3, <1>4, MarkRevokedValid DEF TypeOK, RegistryInv
<1>6. t.id \in scope /\ next.prov[t.id] = NoProv /\ disk = next /\ running \in {disk, Down}
  BY <1>1, <1>2 DEF RevocationInv, Revoking, Selected, AsCandidate
<1> QED
  BY <1>5, <1>6 DEF Carries

\* A proposal that brings in no retired key keeps everything clean.
LEMMA ProposeStaysClean ==
  ASSUME TypeOK, RetiredInv, NEW p \in Proc, NEW cfg, Propose(cfg),
         UNCHANGED <<caVars, retired>>,
         \A t \in retired : AsRecord(t, "Revoked") \in registry' /\ ~Carries(cfg, t)
  PROVE  RetiredInv'
  BY DEF RetiredInv, Propose, caVars, Clean, Carries

LEMMA ExitStaysClean ==
  ASSUME TypeOK, RetiredInv, NEW p \in Proc, Exit(p), UNCHANGED <<running, retired>>,
         disk' \in {disk, next}, registry' = registry
  PROVE  RetiredInv'
  BY DEF RetiredInv, Exit, Clean, Carries

THEOREM RetiredInvInit == Init => RetiredInv
  BY DEF Init, RetiredInv

THEOREM RetiredInvNext ==
  ASSUME Restores \subseteq {"ledger"}
  PROVE  TypeOK /\ RegistryInv /\ RevocationInv /\ RetiredInv /\ [Next]_vars => RetiredInv'
<1> SUFFICES ASSUME TypeOK, RegistryInv, RevocationInv, RetiredInv, [Next]_vars PROVE RetiredInv'
  OBVIOUS
<1> USE CaOriginAssumption
<1>0. \A t \in retired : t \in Candidate /\ AsRecord(t, "Revoked") \in registry /\ ~Carries(disk, t)
  BY DEF TypeOK, RetiredInv, Clean
<1>1. ASSUME NEW p \in Proc, Approve(p)
      PROVE  RetiredInv'
  <2> DEFINE c == cmd[p].req
  <2>1. c \in Candidate
    BY <1>1, CommandFields DEF TypeOK, Approve, AtBegin, At
  <2>2. CASE Reservable(c) /\ registry' = Reserve(registry, c) /\ Propose(ReconcileEnrollment(disk, c))
    <3>1. registry \subseteq registry'
      BY <2>2 DEF Reserve
    <3>2. \A t \in retired : ~Carries(ReconcileEnrollment(disk, c), t)
      BY <1>0, <2>1, <2>2, EditsStayClean, CheckedAvoidsTombstones DEF TypeOK, Reservable
    <3> QED
      BY <1>0, <1>1, <2>2, <3>1, <3>2, ProposeStaysClean DEF Approve
  <2>3. CASE Exit(p) /\ UNCHANGED registry
    BY <1>1, <2>3, ExitStaysClean DEF Approve, caVars
  <2> QED
    BY <1>1, <2>2, <2>3 DEF Approve
<1>2. ASSUME NEW p \in Proc, Import(p)
      PROVE  RetiredInv'
  <2> DEFINE c == cmd[p].req
  <2>1. c \in Candidate /\ registry' = registry
    BY <1>2, CommandFields DEF TypeOK, Import, AtBegin, At
  <2>2. CASE Importable(c) /\ Propose(BindExistingRenewalProvisioner(disk, c))
    <3>1. \A t \in retired : ~Carries(BindExistingRenewalProvisioner(disk, c), t)
      BY <1>0, <2>1, <2>2, EditsStayClean, CheckedAvoidsTombstones DEF TypeOK, Importable
    <3> QED
      BY <1>0, <1>2, <2>1, <2>2, <3>1, ProposeStaysClean DEF Import
  <2>3. CASE Exit(p)
    BY <1>2, <2>3, ExitStaysClean DEF Import, caVars
  <2> QED
    BY <1>2, <2>2, <2>3 DEF Import
<1>3. ASSUME NEW p \in Proc, Revoke(p)
      PROVE  RetiredInv'
  <2>1. \A t \in retired : ~Carries(RemoveMatching(disk, cmd[p].scope), t)
    BY <1>0, EditsStayClean DEF TypeOK
  <2>2. CASE Propose(RemoveMatching(disk, cmd[p].scope))
    BY <1>0, <1>3, <2>1, <2>2, ProposeStaysClean DEF Revoke
  <2>3. CASE Exit(p)
    BY <1>3, <2>3, ExitStaysClean DEF Revoke, caVars
  <2> QED
    BY <1>3, <2>2, <2>3 DEF Revoke
<1>4. ASSUME NEW p \in Proc, ApplyCa(p)
      PROVE  RetiredInv'
  <2>1. \A t \in retired : ~Carries(RemoveRetired(disk, seen[p].ledger), t)
    BY <1>0, EditsStayClean DEF TypeOK
  <2>2. CASE Propose(RemoveRetired(disk, seen[p].ledger))
    BY <1>0, <1>4, <2>1, <2>2, ProposeStaysClean DEF ApplyCa
  <2>3. CASE Exit(p)
    BY <1>4, <2>3, ExitStaysClean DEF ApplyCa, caVars
  <2> QED
    BY <1>4, <2>2, <2>3 DEF ApplyCa
<1>5. ASSUME NEW p \in Proc, InstallCaJson(p) \/ Rollback(p) \/ RestartCa(p) \/ RestartFails(p)
      PROVE  RetiredInv'
  BY <1>5 DEF RetiredInv, Clean, Carries, InstallCaJson, Rollback, RestartCa, RestartFails, At, TypeOK
<1>6. ASSUME NEW p \in Proc,
             \/ InstallFails(p) \/ InstallFailsLate(p) \/ RollbackFails(p)
             \/ Kill(p) /\ holder = p
      PROVE  RetiredInv'
  BY <1>6, ExitStaysClean DEF InstallFails, InstallFailsLate, RollbackFails, Kill, caVars
<1>7. ASSUME NEW p \in Proc, RollbackRestart(p)
      PROVE  RetiredInv'
  BY <1>7 DEF RetiredInv, Clean, Carries, RollbackRestart, Exit
<1>8. ASSUME NEW p \in Proc, Commit(p)
      PROVE  RetiredInv'
  <2>1. ASSUME NEW t \in retired
        PROVE  AsRecord(t, "Revoked") \in registry'
    <3>1. AsRecord(t, "Revoked").status = "Revoked"
      BY DEF AsRecord
    <3> QED
      BY <1>0, <1>8, <2>1, <3>1, CommittedValid DEF Commit, At
  <2>2. \A t \in retired' : AsRecord(t, "Revoked") \in registry' /\ Clean(disk, t) /\ Clean(running, t)
    BY <1>8, <2>1, NewlyRetiredGone DEF Commit, RetiredInv, Clean
  <2> QED
    BY <1>8, <2>2 DEF RetiredInv, Commit, Exit, caVars, Clean, Carries
<1>9. ASSUME NEW p \in Proc, CommitFails(p)
      PROVE  RetiredInv'
  <2>1. ASSUME NEW t \in retired
        PROVE  AsRecord(t, "Revoked") \in registry'
    <3>1. AsRecord(t, "Revoked").status = "Revoked"
      BY DEF AsRecord
    <3> QED
      BY <1>0, <1>9, <2>1, <3>1, CommittedValid DEF CommitFails, At
  <2> QED
    BY <1>9, <2>1 DEF RetiredInv, CommitFails, Exit, caVars, Clean, Carries
<1>10. ASSUME NEW p \in Proc,
              Lock(p) \/ (\E c \in Command : LoadModel(p, c)) \/ (Kill(p) /\ holder # p)
       PROVE  RetiredInv'
  BY <1>10, OthersLeaveTransaction DEF RetiredInv, Clean, Carries
<1>11. CASE StepCaRestarts
  BY <1>11 DEF RetiredInv, Clean, Carries, StepCaRestarts, txnVars
<1>12. CASE (\E g \in grants : GrantEnds(g)) \/ EditPolicy \/ UNCHANGED vars
  BY <1>12 DEF RetiredInv, Clean, Carries, GrantEnds, EditPolicy, vars, caVars, txnVars
<1>13. CASE BackupRegistry \/ Restore
  BY <1>13 DEF RetiredInv, Clean, Carries, BackupRegistry, Restore, RestoreRegistry, RevertLedger,
     RestoreCaJson, MayRestore, caVars, txnVars
<1> QED
  BY <1>1, <1>2, <1>3, <1>4, <1>5, <1>6, <1>7, <1>8, <1>9, <1>10, <1>11, <1>12, <1>13 DEF Next, Transaction

\* Retired enrollments never come back, even if the ledger loses tombstones.
THEOREM RetiredAlwaysDead ==
  ASSUME Restores \subseteq {"ledger"}
  PROVE  Spec => []RetiredStaysDead
<1>1. TypeOK /\ RetiredInv => RetiredStaysDead
  <2> SUFFICES ASSUME TypeOK, RetiredInv PROVE RetiredStaysDead
    OBVIOUS
  <2>1. disk # NoConfig /\ (running = NoConfig => running = Down)
    BY CaOriginAssumption DEF TypeOK
  <2> QED
    BY <2>1 DEF RetiredInv, RetiredStaysDead, Clean, Carries
<1> QED
  BY TypeInit, TypeNext, RegistryInvInit, RegistryInvNext, RevocationInvInit, RevocationInvNext,
     RetiredInvInit, RetiredInvNext, <1>1, PTL DEF Spec

-----------------------------------------------------------------------------
(***************************************************************************)
(* The transaction.  From the proposal to the commit the holder alone      *)
(* changes ca.json, so what it checked when it proposed still describes    *)
(* what is on disk, and what a healthy step-ca serves, when it commits.    *)
(***************************************************************************)
Proposed == pc \in {"install", "activate", "commit", "rollback", "restart"}
Applying == holder # None /\ cmd[holder].op = "apply"

TransactionInv ==
  /\ pc \in {"free", "begin", "install"} => prev = NoConfig
  /\ pc \in {"activate", "commit", "rollback"} => disk = next
  /\ pc = "commit" => running \in {disk, Down}
  /\ Enrolling /\ Proposed => next.prov[cmd[holder].req.id] = Pinned(cmd[holder].req)
  /\ Applying /\ Proposed => \A i \in Id : ~IsRevokedX509(next, seen[holder].ledger, i)

\* An enrollment's edit pins the provisioner of its identity and leaves the others.
LEMMA EditsPin ==
  ASSUME NEW cfg \in Config, NEW c \in Candidate
  PROVE  /\ ReconcileEnrollment(cfg, c).prov[c.id] = Pinned(c)
         /\ BindExistingRenewalProvisioner(cfg, c).prov[c.id] = Pinned(c)
         /\ \A i \in Id \ {c.id} :
              /\ ReconcileEnrollment(cfg, c).prov[i] = cfg.prov[i]
              /\ BindExistingRenewalProvisioner(cfg, c).prov[i] = cfg.prov[i]
<1>1. cfg.prov \in [Id -> Prov \union {NoProv}] /\ c.id \in Id
  BY DEF Config, Candidate
<1> QED
  BY <1>1 DEF ReconcileEnrollment, BindExistingRenewalProvisioner

\* Reconciling ca.json leaves no X.509 provisioner whose keys the ledger tombstones.
LEMMA RemoveRetiredPurges ==
  ASSUME NEW cfg \in Config, NEW led, NEW i \in Id
  PROVE  ~IsRevokedX509(RemoveRetired(cfg, led), led, i)
<1>1. CASE IsRevokedX509(cfg, led, i)
  BY <1>1 DEF RemoveRetired, IsRevokedX509
<1>2. CASE ~IsRevokedX509(cfg, led, i)
  <2>1. RemoveRetired(cfg, led).prov[i] = cfg.prov[i]
    BY <1>2 DEF RemoveRetired
  <2> QED
    BY <1>2, <2>1 DEF IsRevokedX509
<1> QED
  BY <1>1, <1>2

\* A command that ends leaves nothing to say about a transaction.
LEMMA ExitEndsTransaction ==
  ASSUME NEW p \in Proc, Exit(p)
  PROVE  TransactionInv' /\ ~Proposed' /\ prev' = NoConfig /\ next' = NoConfig
  BY DEF Exit, TransactionInv, Enrolling, Applying, Proposed

THEOREM TransactionInvInit == Init => TransactionInv
  BY DEF Init, TransactionInv, Enrolling, Applying, Proposed

THEOREM TransactionInvNext == TypeOK /\ TransactionInv /\ [Next]_vars => TransactionInv'
<1> SUFFICES ASSUME TypeOK, TransactionInv, [Next]_vars PROVE TransactionInv'
  OBVIOUS
<1> USE CaOriginAssumption
<1>1. ASSUME NEW p \in Proc, Approve(p) \/ Import(p)
      PROVE  TransactionInv'
  <2> DEFINE c == cmd[p].req
  <2>1. holder = p /\ pc = "begin" /\ cmd[p].op \in {"approve", "import"} /\ c \in Candidate
    BY <1>1, CommandFields DEF TypeOK, Approve, Import, AtBegin, At
  <2>2. CASE Propose(ReconcileEnrollment(disk, c)) \/ Propose(BindExistingRenewalProvisioner(disk, c))
    <3>1. next'.prov[c.id] = Pinned(c)
      BY <2>1, <2>2, EditsPin DEF TypeOK, Propose
    <3> QED
      BY <2>1, <2>2, <3>1 DEF TransactionInv, Enrolling, Applying, Proposed, Propose, cmdVars
  <2> QED
    BY <1>1, <2>2, ExitEndsTransaction DEF Approve, Import
<1>2. ASSUME NEW p \in Proc, Revoke(p)
      PROVE  TransactionInv'
  <2>1. holder = p /\ pc = "begin" /\ cmd[p].op = "revoke"
    BY <1>2 DEF Revoke, AtBegin, At
  <2>2. CASE \E cfg : Propose(cfg)
    BY <2>1, <2>2 DEF TransactionInv, Enrolling, Applying, Propose, cmdVars
  <2> QED
    BY <1>2, <2>2, ExitEndsTransaction DEF Revoke
<1>3. ASSUME NEW p \in Proc, ApplyCa(p)
      PROVE  TransactionInv'
  <2>1. holder = p /\ pc = "begin" /\ cmd[p].op = "apply"
    BY <1>3 DEF ApplyCa, AtBegin, At
  <2>2. CASE Propose(RemoveRetired(disk, seen[p].ledger))
    <3>1. \A i \in Id : ~IsRevokedX509(next', seen[p].ledger, i)
      BY <2>2, RemoveRetiredPurges DEF TypeOK, Propose
    <3>2. cmd' = cmd /\ seen' = seen /\ holder' = p /\ pc' = "install" /\ prev' = NoConfig
      BY <2>1, <2>2 DEF TransactionInv, Propose, cmdVars
    <3>3. ~Enrolling' /\ (Applying' => \A i \in Id : ~IsRevokedX509(next', seen'[holder'].ledger, i))
      BY <2>1, <3>1, <3>2 DEF Enrolling
    <3> QED
      BY <3>2, <3>3 DEF TransactionInv, IsRevokedX509
  <2> QED
    BY <1>3, <2>2, ExitEndsTransaction DEF ApplyCa
<1>4. ASSUME NEW p \in Proc, InstallCaJson(p) \/ RestartCa(p) \/ RestartFails(p) \/ Rollback(p)
      PROVE  TransactionInv'
  BY <1>4 DEF TransactionInv, Enrolling, Applying, Proposed, IsRevokedX509, InstallCaJson, RestartCa,
     RestartFails, Rollback, At, cmdVars
<1>5. ASSUME NEW p \in Proc,
             \/ InstallFails(p) \/ InstallFailsLate(p) \/ RollbackFails(p) \/ RollbackRestart(p)
             \/ Commit(p) \/ (Kill(p) /\ holder = p)
      PROVE  TransactionInv'
  BY <1>5, ExitEndsTransaction DEF InstallFails, InstallFailsLate, RollbackFails, RollbackRestart,
     Commit, Kill
<1>6. ASSUME NEW p \in Proc, CommitFails(p)
      PROVE  TransactionInv'
  <2>1. CASE pc' = "rollback" /\ UNCHANGED <<holder, prev, next, cmdVars>>
    BY <1>6, <2>1 DEF TransactionInv, Enrolling, Applying, Proposed, IsRevokedX509, CommitFails, At,
       caVars, cmdVars
  <2> QED
    BY <1>6, <2>1, ExitEndsTransaction DEF CommitFails
<1>7. ASSUME NEW p \in Proc,
             Lock(p) \/ (\E c \in Command : LoadModel(p, c)) \/ (Kill(p) /\ holder # p)
      PROVE  TransactionInv'
  <2>1. holder' = holder /\ pc' = pc /\ holder # None => seen'[holder] = seen[holder]
    BY <1>7 DEF TypeOK, Lock, LoadModel, Kill, txnVars, cmdVars
  <2>2. pc' \in {"free", "begin"} => pc \in {"free", "begin"}
    BY <1>7 DEF TypeOK, Lock, LoadModel, Kill, txnVars
  <2> QED
    BY <1>7, <2>1, <2>2, OthersLeaveTransaction
    DEF TypeOK, TransactionInv, Enrolling, Applying, Proposed, IsRevokedX509
<1>8. CASE StepCaRestarts
  BY <1>8 DEF TransactionInv, Enrolling, Applying, Proposed, IsRevokedX509, StepCaRestarts, txnVars, cmdVars
<1>9. CASE (\E g \in grants : GrantEnds(g)) \/ EditPolicy \/ UNCHANGED vars
  BY <1>9 DEF TransactionInv, Enrolling, Applying, Proposed, IsRevokedX509, GrantEnds, EditPolicy, vars,
     caVars, txnVars, cmdVars
<1>10. CASE BackupRegistry \/ Restore
  <2>1. holder' = None /\ pc' = pc /\ pc = "free" /\ prev' = prev
    BY <1>10 DEF TypeOK, BackupRegistry, Restore, RestoreRegistry, RevertLedger, RestoreCaJson,
       MayRestore, txnVars
  <2> QED
    BY <2>1 DEF TransactionInv, Enrolling, Applying
<1> QED
  BY <1>1, <1>2, <1>3, <1>4, <1>5, <1>6, <1>7, <1>8, <1>9, <1>10 DEF Next, Transaction

\* What apply ca installs and step-ca serves has lost every tombstoned X.509 key.
THEOREM ApplyAlwaysPurges == Spec => []ApplyPurgesTombstones
<1>1. TypeOK /\ TransactionInv => ApplyPurgesTombstones
  <2> SUFFICES ASSUME TypeOK, TransactionInv,
                      pc = "commit", cmd[holder].op = "apply", running # Down
               PROVE  \A i \in Id : ~IsRevokedX509(running, seen[holder].ledger, i)
    BY DEF ApplyPurgesTombstones
  <2>1. Applying /\ Proposed
    BY DEF TypeOK, Applying, Proposed
  <2>2. running = next
    BY DEF TransactionInv
  <2> QED
    BY <2>1, <2>2 DEF TransactionInv
<1> QED
  BY TypeInit, TypeNext, TransactionInvInit, TransactionInvNext, <1>1, PTL DEF Spec

-----------------------------------------------------------------------------
(***************************************************************************)
(* What the registry knows, as sets of candidates.  Reserving and          *)
(* activating a checked candidate adds it and nothing else, revoking adds  *)
(* and forgets none, and takes exactly the scope's candidates out of those *)
(* that are live.                                                          *)
(***************************************************************************)
CandidatesOf(reg) == {AsCandidate(r) : r \in reg}

ActiveIn(reg) == {r \in reg : r.status = "Active"}

LEMMA CandidateFields ==
  /\ \A r \in Record : AsCandidate(r) \in Candidate
  /\ \A r : /\ AsCandidate(r).id = r.id /\ AsCandidate(r).key = r.key /\ AsCandidate(r).ren = r.ren
            /\ Pinned(AsCandidate(r)) = Pinned(r)
  /\ \A c \in Candidate : \A r : r.id = c.id /\ SameKeys(r, c) => AsCandidate(r) = c
  /\ \A c \in Candidate : \A status : AsCandidate(AsRecord(c, status)) = c
  /\ \A r, status : AsCandidate(AsRecord(r, status)) = AsCandidate(r)
<1>1. \A c \in Candidate : c = [id |-> c.id, key |-> c.key, ren |-> c.ren]
  BY DEF Candidate
<1>2. \A r \in Record : AsCandidate(r) \in Candidate
  BY DEF AsCandidate, Record, Candidate
<1>3. \A r : /\ AsCandidate(r).id = r.id /\ AsCandidate(r).key = r.key /\ AsCandidate(r).ren = r.ren
             /\ Pinned(AsCandidate(r)) = Pinned(r)
  BY DEF AsCandidate, Pinned
<1>4. \A c \in Candidate : \A r : r.id = c.id /\ SameKeys(r, c) => AsCandidate(r) = c
  BY <1>1 DEF AsCandidate, SameKeys
<1>5. \A c \in Candidate : \A status : AsCandidate(AsRecord(c, status)) = c
  BY <1>1 DEF AsCandidate, AsRecord
<1>6. \A r, status : AsCandidate(AsRecord(r, status)) = AsCandidate(r)
  BY DEF AsCandidate, AsRecord
<1> QED
  BY <1>2, <1>3, <1>4, <1>5, <1>6

LEMMA ReserveCandidates ==
  ASSUME NEW reg \in SUBSET Record, NEW c \in Candidate, CheckCandidate(reg, c)
  PROVE  /\ CandidatesOf(Reserve(reg, c)) = CandidatesOf(reg) \union {c}
         /\ CandidatesOf(Live(Reserve(reg, c))) = CandidatesOf(Live(reg)) \union {c}
         /\ ActiveIn(Reserve(reg, c)) = ActiveIn(reg)
         /\ c \in CandidatesOf(reg) \/ \A e \in CandidatesOf(reg) : ~SharesKey(e, c)
<1>1. CASE LiveOf(reg, c.id) # {}
  <2>1. PICK m \in Live(reg) : m.id = c.id /\ m \in reg
    BY <1>1 DEF LiveOf, Live
  <2>2. AsCandidate(m) = c
    BY <2>1, CandidateFields DEF CheckCandidate, Live
  <2> QED
    BY <1>1, <2>1, <2>2 DEF Reserve, CandidatesOf
<1>2. CASE LiveOf(reg, c.id) = {}
  <2> DEFINE n == AsRecord(c, "Pending")
  <2>1. Reserve(reg, c) = reg \union {n}
    BY <1>2 DEF Reserve
  <2>2. n.status = "Pending" /\ AsCandidate(n) = c
    BY CandidateFields DEF AsRecord
  <2>3. Live(reg \union {n}) = Live(reg) \union {n} /\ ActiveIn(reg \union {n}) = ActiveIn(reg)
    BY <2>2 DEF Live, ActiveIn
  <2>4. \A s : CandidatesOf(s \union {n}) = CandidatesOf(s) \union {c}
    BY <2>2 DEF CandidatesOf
  <2>5. \A e \in CandidatesOf(reg) : ~SharesKey(e, c)
    BY <1>2, CandidateFields DEF CandidatesOf, CheckCandidate, LiveOf, Live, SharesKey
  <2> HIDE DEF n
  <2> QED
    BY <2>1, <2>3, <2>4, <2>5
<1> QED
  BY <1>1, <1>2

LEMMA ActivateCandidates ==
  ASSUME NEW reg \in SUBSET Record, NEW c \in Candidate, Validate(reg), CheckCandidate(reg, c)
  PROVE  /\ CandidatesOf(Activate(reg, c)) = CandidatesOf(reg) \union {c}
         /\ CandidatesOf(Live(Activate(reg, c))) = CandidatesOf(Live(reg)) \union {c}
         /\ CandidatesOf(ActiveIn(Activate(reg, c))) = CandidatesOf(ActiveIn(reg)) \union {c}
<1> DEFINE n == AsRecord(c, "Active")
<1>1. n.status = "Active" /\ AsCandidate(n) = c
  BY CandidateFields DEF AsRecord
<1>2. ASSUME NEW old \in SUBSET reg, \A r \in old : AsCandidate(r) = c,
             Activate(reg, c) = (reg \ old) \union {n}
      PROVE  /\ CandidatesOf(Activate(reg, c)) = CandidatesOf(reg) \union {c}
             /\ CandidatesOf(Live(Activate(reg, c))) = CandidatesOf(Live(reg)) \union {c}
             /\ CandidatesOf(ActiveIn(Activate(reg, c))) = CandidatesOf(ActiveIn(reg)) \union {c}
  <2>1. \A s : CandidatesOf((s \ old) \union {n}) = CandidatesOf(s) \union {c}
    BY <1>1, <1>2 DEF CandidatesOf
  <2>2. /\ Live((reg \ old) \union {n}) = (Live(reg) \ old) \union {n}
        /\ ActiveIn((reg \ old) \union {n}) = (ActiveIn(reg) \ old) \union {n}
    BY <1>1 DEF Live, ActiveIn
  <2> HIDE DEF n
  <2> QED
    BY <1>2, <2>1, <2>2
<1>3. CASE LiveOf(reg, c.id) # {}
  <2>1. PICK m \in reg : m.status # "Revoked" /\ m.id = c.id
    BY <1>3 DEF LiveOf, Live
  <2>2. LiveOf(reg, c.id) = {m} /\ SameKeys(m, c)
    BY <2>1 DEF LiveOf, Live, Validate, CheckCandidate
  <2>3. AsRecord(m, "Active") = n /\ AsCandidate(m) = c
    BY <2>1, <2>2, CandidateFields DEF AsRecord, SameKeys
  <2>4. Activate(reg, c) = (reg \ {m}) \union {n}
    BY <1>3, <2>2, <2>3 DEF Activate
  <2> QED
    BY <1>2, <2>3, <2>4
<1>4. CASE LiveOf(reg, c.id) = {}
  <2> DEFINE none == {}
  <2>1. /\ none \in SUBSET reg /\ \A r \in none : AsCandidate(r) = c
        /\ Activate(reg, c) = (reg \ none) \union {n}
    BY <1>4 DEF Activate
  <2> HIDE DEF none
  <2> QED
    BY <1>2, <2>1
<1> QED
  BY <1>3, <1>4

OfScope(reg, scope) == {r \in reg : r.id \in scope}

\* In a valid registry the selected key pairs are those of the scope's own records.
LEMMA MarkRevokedCandidates ==
  ASSUME NEW reg \in SUBSET Record, Validate(reg), NEW scope
  PROVE  LET after == MarkRevoked(reg, OfScope(reg, scope)) IN
         /\ CandidatesOf(after) = CandidatesOf(reg)
         /\ Live(after) = Live(reg) \ OfScope(reg, scope)
         /\ ActiveIn(after) \subseteq ActiveIn(reg)
<1> DEFINE selected == OfScope(reg, scope)
           Image(r) == IF r.id \in scope THEN AsRecord(r, "Revoked") ELSE r
<1>1. \A r \in reg : (\E s \in selected : SameKeys(r, s)) <=> r.id \in scope
  BY DEF OfScope, Validate, SharesKey, SameKeys
<1>2. MarkRevoked(reg, selected) = {Image(r) : r \in reg}
  BY <1>1 DEF MarkRevoked
<1>3. \A r : /\ AsCandidate(Image(r)) = AsCandidate(r)
             /\ r.id \in scope => Image(r).status = "Revoked"
             /\ r.id \notin scope => Image(r) = r
  BY CandidateFields DEF AsRecord
<1> HIDE DEF Image
<1>4. CandidatesOf({Image(r) : r \in reg}) = CandidatesOf(reg)
  BY <1>3 DEF CandidatesOf
<1>5. Live({Image(s) : s \in reg}) = Live(reg) \ selected
  BY <1>3 DEF Live, OfScope
<1>6. ActiveIn({Image(r) : r \in reg}) \subseteq ActiveIn(reg)
  BY <1>3 DEF ActiveIn
<1> QED
  BY <1>2, <1>4, <1>5, <1>6

\* What the registry knows after the save that ends a transaction.
LEMMA CommittedCandidates ==
  ASSUME TypeOK, RegistryInv, pc = "commit"
  PROVE  LET c == cmd[holder]
             saved == CommittedRegistry(c) IN
         /\ c.op \in {"approve", "import"} =>
              /\ c.req \in Candidate
              /\ CandidatesOf(saved) = CandidatesOf(registry) \union {c.req}
              /\ CandidatesOf(Live(saved)) = CandidatesOf(Live(registry)) \union {c.req}
              /\ CandidatesOf(ActiveIn(saved)) = CandidatesOf(ActiveIn(registry)) \union {c.req}
         /\ c.op = "revoke" =>
              /\ CandidatesOf(saved) = CandidatesOf(registry)
              /\ Live(saved) = Live(registry) \ OfScope(registry, c.scope)
              /\ ActiveIn(saved) \subseteq ActiveIn(registry)
         /\ c.op = "apply" => saved = registry
         /\ c.op \in {"approve", "import", "revoke", "apply"}
<1> DEFINE c == cmd[holder]
<1>1. c \in Command /\ c.op \in {"approve", "import", "revoke", "apply"} /\ holder # None
  BY CommandFields DEF TypeOK
<1>2. registry \in SUBSET Record /\ Validate(registry)
  BY DEF TypeOK, RegistryInv
<1>3. CASE c.op \in {"approve", "import"}
  <2>1. c.req \in Candidate /\ CheckCandidate(registry, c.req)
    BY <1>1, <1>3, CommandFields DEF RegistryInv, Enrolling
  <2>2. CommittedRegistry(c) = Activate(registry, c.req)
    BY <1>3 DEF CommittedRegistry
  <2> QED
    BY <1>2, <1>3, <2>1, <2>2, ActivateCandidates
<1>4. CASE c.op = "revoke"
  <2>1. CommittedRegistry(c) = MarkRevoked(registry, OfScope(registry, c.scope))
    BY <1>4 DEF CommittedRegistry, Selected, OfScope
  <2> QED
    BY <1>2, <1>4, <2>1, MarkRevokedCandidates
<1>5. CASE c.op = "apply"
  BY <1>5 DEF CommittedRegistry
<1> QED
  BY <1>1, <1>3, <1>4, <1>5

-----------------------------------------------------------------------------
(***************************************************************************)
(* Active records are bound.  ActiveIsBound is not inductive: a rollback   *)
(* brings prev back, an install brings in next, and an operator may put an *)
(* older registry back, in which the record is Active.  What makes it so   *)
(* is that a backup of the registry holds only enrollments that are still  *)
(* known, so the check of a new candidate covers the backup's records too. *)
(***************************************************************************)
BoundTo(cfg, reg) ==
  \A e \in CandidatesOf(ActiveIn(reg)) :
    cfg.prov[e.id] # NoProv /\ cfg.prov[e.id].ren = e.ren => cfg.prov[e.id] = Pinned(e)

Configurations == {disk, running, prev, next} \ {Down, NoConfig}

BoundInv ==
  /\ CandidatesOf(savedRegistry) \subseteq CandidatesOf(registry)
  /\ \A cfg \in Configurations : BoundTo(cfg, registry) /\ BoundTo(cfg, savedRegistry)

\* A checked candidate that shares a key with a known one is that one.
LEMMA CheckedIsKnown ==
  ASSUME NEW reg, NEW c \in Candidate, CheckCandidate(reg, c), NEW e \in CandidatesOf(reg), SharesKey(e, c)
  PROVE  e = c
<1>1. PICK r \in reg : e = AsCandidate(r)
  BY DEF CandidatesOf
<1>2. SharesKey(r, c)
  BY <1>1, CandidateFields DEF SharesKey
<1> QED
  BY <1>1, <1>2, CandidateFields DEF CheckCandidate

\* An edit pins no other key to a renewal JWK of an Active record.
LEMMA EditsStayBound ==
  ASSUME NEW cfg \in Config, NEW reg \in SUBSET Record, BoundTo(cfg, reg)
  PROVE  /\ \A c \in Candidate : (\A e \in CandidatesOf(reg) : SharesKey(e, c) => e = c) =>
              /\ BoundTo(ReconcileEnrollment(cfg, c), reg)
              /\ BoundTo(BindExistingRenewalProvisioner(cfg, c), reg)
         /\ \A scope : BoundTo(RemoveMatching(cfg, scope), reg)
         /\ \A led : BoundTo(RemoveRetired(cfg, led), reg)
<1>1. \A e \in CandidatesOf(ActiveIn(reg)) : e \in CandidatesOf(reg) /\ e \in Candidate /\ e.id \in Id
  BY CandidateFields DEF CandidatesOf, ActiveIn, Candidate
<1>2. ASSUME NEW c \in Candidate, \A e \in CandidatesOf(reg) : SharesKey(e, c) => e = c,
             NEW new, new.prov[c.id] = Pinned(c), \A i \in Id \ {c.id} : new.prov[i] = cfg.prov[i]
      PROVE  BoundTo(new, reg)
  <2> SUFFICES ASSUME NEW e \in CandidatesOf(ActiveIn(reg)),
                      new.prov[e.id] # NoProv, new.prov[e.id].ren = e.ren
               PROVE  new.prov[e.id] = Pinned(e)
    BY DEF BoundTo
  <2>1. CASE e.id = c.id
    <3>1. c.ren = e.ren
      BY <1>2, <2>1 DEF Pinned
    <3>2. e = c
      BY <1>1, <1>2, <3>1 DEF SharesKey
    <3> QED
      BY <1>2, <3>2
  <2>2. CASE e.id # c.id
    BY <1>1, <1>2, <2>2 DEF BoundTo
  <2> QED
    BY <2>1, <2>2
<1>3. ASSUME NEW scope
      PROVE  BoundTo(RemoveMatching(cfg, scope), reg)
  BY <1>1 DEF BoundTo, RemoveMatching
<1>4. ASSUME NEW led
      PROVE  BoundTo(RemoveRetired(cfg, led), reg)
  BY <1>1 DEF BoundTo, RemoveRetired
<1> QED
  BY <1>2, <1>3, <1>4, EditsPin

\* A bound proposal for unchanged Active records keeps everything bound.
LEMMA ProposeStaysBound ==
  ASSUME TypeOK, BoundInv, NEW p \in Proc, NEW cfg, Propose(cfg), UNCHANGED <<caVars, savedRegistry>>,
         CandidatesOf(registry) \subseteq CandidatesOf(registry'), ActiveIn(registry') = ActiveIn(registry),
         BoundTo(cfg, registry), BoundTo(cfg, savedRegistry)
  PROVE  BoundInv'
  BY DEF BoundInv, BoundTo, Configurations, Propose, caVars

LEMMA ExitStaysBound ==
  ASSUME TypeOK, BoundInv, NEW p \in Proc, Exit(p), UNCHANGED <<registry, savedRegistry>>,
         disk' \in {disk, next} \ {NoConfig}, running' \in {running, disk, Down}
  PROVE  BoundInv'
<1>1. Configurations' \subseteq Configurations
  BY CaOriginAssumption DEF TypeOK, Configurations, Exit
<1> QED
  BY <1>1 DEF BoundInv, BoundTo

\* The commit of an enrollment finds its provisioner pinned wherever it is served.
LEMMA CommitStaysBound ==
  ASSUME TypeOK, RegistryInv, TransactionInv, BoundInv, NEW p \in Proc, Commit(p)
  PROVE  BoundInv'
<1> DEFINE c == cmd[p]
<1>1. /\ holder = p /\ pc = "commit" /\ registry' = CommittedRegistry(c)
      /\ UNCHANGED <<disk, running, savedRegistry>> /\ prev' = NoConfig /\ next' = NoConfig
  BY DEF Commit, At, Exit, caVars, savedVars
<1>2. Configurations' \subseteq Configurations /\ Configurations' \subseteq {next}
  BY <1>1 DEF TransactionInv, Configurations
<1>3. CandidatesOf(savedRegistry) \subseteq CandidatesOf(registry')
  BY <1>1, CommittedCandidates DEF BoundInv
<1>4. BoundTo(next, registry) => BoundTo(next, registry')
  <2>1. CASE c.op \in {"approve", "import"}
    <3>1. next.prov[c.req.id] = Pinned(c.req)
      BY <1>1, <2>1, CaOriginAssumption DEF TransactionInv, Enrolling, Proposed
    <3>2. CandidatesOf(ActiveIn(registry')) = CandidatesOf(ActiveIn(registry)) \union {c.req}
      BY <1>1, <2>1, CommittedCandidates
    <3> QED
      BY <3>1, <3>2 DEF BoundTo
  <2>2. CASE c.op \notin {"approve", "import"}
    <3>1. ActiveIn(registry') \subseteq ActiveIn(registry)
      BY <1>1, <2>2, CommittedCandidates
    <3> QED
      BY <3>1 DEF BoundTo, CandidatesOf
  <2> QED
    BY <2>1, <2>2
<1> QED
  BY <1>1, <1>2, <1>3, <1>4 DEF BoundInv

THEOREM BoundInvInit == Init => BoundInv
  BY DEF Init, BoundInv, BoundTo, CandidatesOf, ActiveIn

THEOREM BoundInvNext ==
  ASSUME "caJson" \notin Restores, "fsync" \notin Faults
  PROVE  TypeOK /\ RegistryInv /\ TransactionInv /\ BoundInv /\ [Next]_vars => BoundInv'
<1> SUFFICES ASSUME TypeOK, RegistryInv, TransactionInv, BoundInv, [Next]_vars PROVE BoundInv'
  OBVIOUS
<1> USE CaOriginAssumption
<1>0. /\ disk \in Config /\ registry \in SUBSET Record /\ savedRegistry \in SUBSET Record
      /\ BoundTo(disk, registry) /\ BoundTo(disk, savedRegistry)
  BY DEF TypeOK, BoundInv, Configurations
<1>1. ASSUME NEW c \in Candidate, CheckCandidate(registry, c),
             NEW cfg \in {ReconcileEnrollment(disk, c), BindExistingRenewalProvisioner(disk, c)}
      PROVE  BoundTo(cfg, registry) /\ BoundTo(cfg, savedRegistry)
  <2>1. \A e \in CandidatesOf(registry) : SharesKey(e, c) => e = c
    BY <1>1, CheckedIsKnown
  <2>2. \A e \in CandidatesOf(savedRegistry) : SharesKey(e, c) => e = c
    BY <2>1 DEF BoundInv
  <2> QED
    BY <1>0, <1>1, <2>1, <2>2, EditsStayBound
<1>2. ASSUME NEW p \in Proc, Approve(p)
      PROVE  BoundInv'
  <2> DEFINE c == cmd[p].req
  <2>1. c \in Candidate
    BY <1>2, CommandFields DEF TypeOK, Approve, AtBegin, At
  <2>2. CASE Reservable(c) /\ registry' = Reserve(registry, c) /\ Propose(ReconcileEnrollment(disk, c))
    <3>1. CandidatesOf(registry) \subseteq CandidatesOf(registry') /\ ActiveIn(registry') = ActiveIn(registry)
      BY <1>0, <2>1, <2>2, ReserveCandidates DEF Reservable
    <3>2. /\ BoundTo(ReconcileEnrollment(disk, c), registry)
          /\ BoundTo(ReconcileEnrollment(disk, c), savedRegistry)
      BY <1>1, <2>1, <2>2 DEF Reservable
    <3> QED
      BY <1>2, <2>2, <3>1, <3>2, ProposeStaysBound DEF Approve, savedVars
  <2>3. CASE Exit(p) /\ UNCHANGED registry
    BY <1>0, <1>2, <2>3, ExitStaysBound DEF Approve, caVars, savedVars
  <2> QED
    BY <1>2, <2>2, <2>3 DEF Approve
<1>3. ASSUME NEW p \in Proc, Import(p)
      PROVE  BoundInv'
  <2> DEFINE c == cmd[p].req
  <2>1. c \in Candidate /\ registry' = registry
    BY <1>3, CommandFields DEF TypeOK, Import, AtBegin, At
  <2>2. CASE Importable(c) /\ Propose(BindExistingRenewalProvisioner(disk, c))
    <3>1. /\ BoundTo(BindExistingRenewalProvisioner(disk, c), registry)
          /\ BoundTo(BindExistingRenewalProvisioner(disk, c), savedRegistry)
      BY <1>1, <2>1, <2>2 DEF Importable
    <3> QED
      BY <1>3, <2>1, <2>2, <3>1, ProposeStaysBound DEF Import, savedVars
  <2>3. CASE Exit(p)
    BY <1>0, <1>3, <2>1, <2>3, ExitStaysBound DEF Import, caVars, savedVars
  <2> QED
    BY <1>3, <2>2, <2>3 DEF Import
<1>4. ASSUME NEW p \in Proc, Revoke(p) \/ ApplyCa(p)
      PROVE  BoundInv'
  <2> DEFINE cfg == IF Revoke(p) THEN RemoveMatching(disk, cmd[p].scope) ELSE RemoveRetired(disk, seen[p].ledger)
  <2>1. BoundTo(cfg, registry) /\ BoundTo(cfg, savedRegistry)
    BY <1>0, EditsStayBound
  <2>2. registry' = registry /\ UNCHANGED <<disk, running, savedRegistry>> /\ (Propose(cfg) \/ Exit(p))
    BY <1>4 DEF Revoke, ApplyCa, caVars, savedVars
  <2> HIDE DEF cfg
  <2>3. CASE Propose(cfg)
    BY <2>1, <2>2, <2>3, ProposeStaysBound DEF caVars
  <2>4. CASE Exit(p)
    BY <1>0, <2>2, <2>4, ExitStaysBound DEF TypeOK
  <2> QED
    BY <2>2, <2>3, <2>4
<1>5. ASSUME NEW p \in Proc, InstallCaJson(p) \/ Rollback(p) \/ RestartCa(p) \/ RestartFails(p)
      PROVE  BoundInv'
  <2>1. UNCHANGED <<registry, savedRegistry>> /\ Configurations' \subseteq Configurations
    BY <1>0, <1>5 DEF TypeOK, Configurations, InstallCaJson, Rollback, RestartCa, RestartFails, At, savedVars
  <2> QED
    BY <2>1 DEF BoundInv, BoundTo
<1>6. ASSUME NEW p \in Proc,
             \/ InstallFails(p) \/ InstallFailsLate(p) \/ RollbackFails(p) \/ RollbackRestart(p)
             \/ Kill(p) /\ holder = p
      PROVE  BoundInv'
  <2>1. UNCHANGED <<registry, savedRegistry>> /\ Exit(p)
    BY <1>6 DEF InstallFails, InstallFailsLate, RollbackFails, RollbackRestart, Kill, savedVars
  <2>2. disk' \in {disk, next} \ {NoConfig} /\ running' \in {running, disk, Down}
    BY <1>0, <1>6 DEF TypeOK, InstallFails, InstallFailsLate, RollbackFails, RollbackRestart, Kill, At, caVars
  <2> QED
    BY <2>1, <2>2, ExitStaysBound
<1>7. ASSUME NEW p \in Proc, CommitFails(p)
      PROVE  BoundInv'
  <2>1. UNCHANGED <<registry, disk, running, savedRegistry>>
    BY <1>7 DEF CommitFails, caVars, savedVars
  <2>2. CASE UNCHANGED <<prev, next>>
    BY <2>1, <2>2 DEF BoundInv, BoundTo, Configurations
  <2>3. CASE Exit(p)
    BY <1>0, <2>1, <2>3, ExitStaysBound DEF TypeOK
  <2> QED
    BY <1>7, <2>2, <2>3 DEF CommitFails
<1>8. ASSUME NEW p \in Proc,
             Lock(p) \/ (\E c \in Command : LoadModel(p, c)) \/ (Kill(p) /\ holder # p)
      PROVE  BoundInv'
  BY <1>8, OthersLeaveTransaction DEF BoundInv, BoundTo, Configurations
<1>9. CASE StepCaRestarts
  <2>1. UNCHANGED <<registry, savedRegistry>> /\ Configurations' \subseteq Configurations
    BY <1>0, <1>9 DEF TypeOK, Configurations, StepCaRestarts, savedVars, txnVars
  <2> QED
    BY <2>1 DEF BoundInv, BoundTo
<1>10. CASE (\E g \in grants : GrantEnds(g)) \/ EditPolicy \/ UNCHANGED vars
  BY <1>10 DEF BoundInv, BoundTo, Configurations, GrantEnds, EditPolicy, vars, caVars, txnVars, savedVars
<1>11. CASE BackupRegistry \/ Restore
  <2>1. UNCHANGED <<disk, running, prev, next>>
    BY <1>11 DEF BackupRegistry, Restore, RestoreRegistry, RevertLedger, RestoreCaJson, MayRestore,
       caVars, txnVars
  <2>2. \/ registry' = registry /\ savedRegistry' \in {registry, savedRegistry}
        \/ registry' = savedRegistry /\ savedRegistry' = savedRegistry
    BY <1>11 DEF BackupRegistry, Restore, RestoreRegistry, RevertLedger, RestoreCaJson, MayRestore
  <2> QED
    BY <2>1, <2>2 DEF BoundInv, BoundTo, Configurations
<1> QED
  BY <1>2, <1>3, <1>4, <1>5, <1>6, <1>7, <1>8, <1>9, <1>10, <1>11, CommitStaysBound DEF Next, Transaction

\* While a record is Active its renewal JWK is pinned to the recorded key, on disk
\* and in step-ca, whatever provisioners the site had before the registry.
THEOREM ActiveAlwaysBound ==
  ASSUME "caJson" \notin Restores, "fsync" \notin Faults
  PROVE  Spec => []ActiveIsBound
<1>1. TypeOK /\ BoundInv => ActiveIsBound
  <2> SUFFICES ASSUME TypeOK, BoundInv,
                      NEW r \in registry, r.status = "Active", NEW cfg \in {disk, running} \ {Down},
                      cfg.prov[r.id] # NoProv, cfg.prov[r.id].ren = r.ren
               PROVE  cfg.prov[r.id] = Pinned(r)
    BY DEF ActiveIsBound
  <2>1. cfg \in Configurations
    BY CaOriginAssumption DEF TypeOK, Configurations
  <2>2. AsCandidate(r) \in CandidatesOf(ActiveIn(registry))
    BY DEF CandidatesOf, ActiveIn
  <2> QED
    BY <2>1, <2>2, CandidateFields DEF BoundInv, BoundTo
<1> QED
  BY TypeInit, TypeNext, RegistryInvInit, RegistryInvNext, TransactionInvInit, TransactionInvNext,
     BoundInvInit, BoundInvNext, <1>1, PTL DEF Spec

-----------------------------------------------------------------------------
(***************************************************************************)
(* A reservation can be resumed.  What could stand in its way is a         *)
(* provisioner of its identity with another renewal JWK.  None comes:      *)
(* ca.json, what a rollback would bring back and what is about to be       *)
(* installed all agree with the live records.  An import whose save fails  *)
(* after the rename leaves its record behind, so what was on disk when it  *)
(* began has to agree with the candidate as well.                          *)
(***************************************************************************)
Agrees(cfg, enrolled) ==
  \A e \in enrolled : cfg.prov[e.id] # NoProv => cfg.prov[e.id].ren = e.ren

LiveCandidates == CandidatesOf(Live(registry))

\* ca.json as it was when the transaction proposed its edit.
Former == IF pc = "install" THEN disk ELSE prev

AgreesInv ==
  /\ \A cfg \in {disk, prev, next} \ {NoConfig} : Agrees(cfg, LiveCandidates)
  /\ Enrolling /\ pc \in {"install", "activate", "commit"} =>
       Agrees(Former, {cmd[holder].req})

\* An enrollment's edit agrees with every record its check admits, any other edit with
\* every record it agreed with before.
LEMMA EditsAgree ==
  ASSUME NEW cfg \in Config, NEW enrolled \in SUBSET Candidate, Agrees(cfg, enrolled)
  PROVE  /\ \A c \in Candidate : (\A e \in enrolled : e.id = c.id => e = c) =>
              /\ Agrees(ReconcileEnrollment(cfg, c), enrolled \union {c})
              /\ Agrees(BindExistingRenewalProvisioner(cfg, c), enrolled \union {c})
         /\ \A scope : Agrees(RemoveMatching(cfg, scope), enrolled)
         /\ \A led : Agrees(RemoveRetired(cfg, led), enrolled)
<1>1. \A e \in enrolled : e.id \in Id
  BY DEF Candidate
<1>2. ASSUME NEW c \in Candidate, \A e \in enrolled : e.id = c.id => e = c,
             NEW new, new.prov[c.id] = Pinned(c), \A i \in Id \ {c.id} : new.prov[i] = cfg.prov[i]
      PROVE  Agrees(new, enrolled \union {c})
  <2>1. Pinned(c).ren = c.ren
    BY DEF Pinned
  <2> QED
    BY <1>1, <1>2, <2>1 DEF Agrees
<1>3. ASSUME NEW scope
      PROVE  Agrees(RemoveMatching(cfg, scope), enrolled)
  BY <1>1 DEF Agrees, RemoveMatching
<1>4. ASSUME NEW led
      PROVE  Agrees(RemoveRetired(cfg, led), enrolled)
  BY <1>1 DEF Agrees, RemoveRetired
<1> QED
  BY <1>2, <1>3, <1>4, EditsPin

\* A checked candidate is the live enrollment of its identity, if there is one.
LEMMA CheckedIsLive ==
  ASSUME NEW reg, NEW c \in Candidate, CheckCandidate(reg, c),
         NEW e \in CandidatesOf(Live(reg)), e.id = c.id
  PROVE  e = c
<1>1. PICK r \in Live(reg) : e = AsCandidate(r)
  BY DEF CandidatesOf
<1>2. r.id = c.id /\ r \in reg /\ r.status # "Revoked"
  BY <1>1, CandidateFields DEF Live
<1> QED
  BY <1>1, <1>2, CandidateFields DEF CheckCandidate

\* What commits, or is saved by a commit that then fails, agrees with ca.json.
LEMMA CommittedAgrees ==
  ASSUME TypeOK, RegistryInv, TransactionInv, AgreesInv, pc = "commit"
  PROVE  LET saved == CandidatesOf(Live(CommittedRegistry(cmd[holder]))) IN
         Agrees(disk, saved) /\ Agrees(next, saved) /\ Agrees(prev, saved)
<1> DEFINE c == cmd[holder]
           saved == CandidatesOf(Live(CommittedRegistry(c)))
<1>1. holder # None /\ prev # NoConfig /\ next # NoConfig /\ disk # NoConfig /\ disk = next
  BY CaOriginAssumption DEF TypeOK, TransactionInv
<1>2. Agrees(next, LiveCandidates) /\ Agrees(prev, LiveCandidates)
  BY <1>1 DEF AgreesInv
<1>3. CASE c.op \in {"approve", "import"}
  <2>1. saved = LiveCandidates \union {c.req}
    BY <1>3, CommittedCandidates DEF LiveCandidates
  <2>2. Agrees(prev, {c.req})
    BY <1>1, <1>3 DEF AgreesInv, Enrolling, Former
  <2>3. next.prov[c.req.id] = Pinned(c.req)
    BY <1>1, <1>3 DEF TransactionInv, Enrolling, Proposed
  <2>4. Agrees(next, {c.req})
    BY <2>3 DEF Agrees, Pinned
  <2> QED
    BY <1>1, <1>2, <2>1, <2>2, <2>4 DEF Agrees
<1>4. CASE c.op \notin {"approve", "import"}
  <2>1. Live(CommittedRegistry(c)) \subseteq Live(registry)
    BY <1>4, CommittedCandidates
  <2>2. saved \subseteq LiveCandidates
    BY <2>1 DEF CandidatesOf, LiveCandidates
  <2> QED
    BY <1>1, <1>2, <2>2 DEF Agrees
<1> QED
  BY <1>3, <1>4

THEOREM AgreesInvInit == Init => AgreesInv
  BY DEF Init, AgreesInv, Agrees, LiveCandidates, CandidatesOf, Live, Enrolling

THEOREM AgreesInvNext ==
  ASSUME Restores \subseteq {"ledger"}
  PROVE  TypeOK /\ RegistryInv /\ TransactionInv /\ AgreesInv /\ [Next]_vars => AgreesInv'
<1> SUFFICES ASSUME TypeOK, RegistryInv, TransactionInv, AgreesInv, [Next]_vars PROVE AgreesInv'
  OBVIOUS
<1> USE CaOriginAssumption
<1>0. /\ disk \in Config /\ disk # NoConfig /\ registry \in SUBSET Record
      /\ LiveCandidates \in SUBSET Candidate /\ Agrees(disk, LiveCandidates)
  BY CandidateFields DEF TypeOK, AgreesInv, LiveCandidates, CandidatesOf, Live
<1>1. ASSUME NEW p \in Proc, Exit(p), disk' \in {disk, next} \ {NoConfig}, registry' = registry
      PROVE  AgreesInv'
  BY <1>1 DEF AgreesInv, Agrees, LiveCandidates, Enrolling, Exit
<1>2. ASSUME NEW p \in Proc, Approve(p)
      PROVE  AgreesInv'
  <2> DEFINE c == cmd[p].req
             cfg == ReconcileEnrollment(disk, c)
  <2>1. c \in Candidate /\ holder = p /\ cmd[p].op = "approve" /\ disk' = disk
    BY <1>2, CommandFields DEF TypeOK, Approve, AtBegin, At, caVars
  <2>2. CASE Reservable(c) /\ registry' = Reserve(registry, c) /\ Propose(cfg)
    <3>1. LiveCandidates' = LiveCandidates \union {c}
      BY <1>0, <2>1, <2>2, ReserveCandidates DEF Reservable, LiveCandidates
    <3>2. \A e \in LiveCandidates : e.id = c.id => e = c
      BY <2>1, <2>2, CheckedIsLive DEF Reservable, LiveCandidates
    <3>3. Agrees(cfg, LiveCandidates')
      BY <1>0, <2>1, <3>1, <3>2, EditsAgree
    <3>4. Agrees(disk, {c})
      BY <2>2 DEF Reservable, Agrees
    <3>5. Agrees(disk, LiveCandidates')
      BY <1>0, <3>1, <3>4 DEF Agrees
    <3>6. prev' = prev /\ next' = cfg /\ pc' = "install" /\ cmd' = cmd /\ holder' = holder
      BY <2>2 DEF Propose, cmdVars
    <3>7. prev # NoConfig => Agrees(prev, LiveCandidates')
      <4>1. prev = NoConfig
        BY <1>2 DEF Approve, AtBegin, At, TransactionInv
      <4> QED
        BY <4>1
    <3> QED
      BY <2>1, <3>3, <3>4, <3>5, <3>6, <3>7 DEF AgreesInv, Former, Agrees
  <2>3. CASE Exit(p) /\ UNCHANGED registry
    BY <1>0, <1>1, <2>1, <2>3
  <2> QED
    BY <1>2, <2>2, <2>3 DEF Approve
<1>3. ASSUME NEW p \in Proc, Import(p)
      PROVE  AgreesInv'
  <2> DEFINE c == cmd[p].req
             cfg == BindExistingRenewalProvisioner(disk, c)
  <2>1. c \in Candidate /\ holder = p /\ cmd[p].op = "import" /\ disk' = disk /\ registry' = registry
    BY <1>3, CommandFields DEF TypeOK, Import, AtBegin, At, caVars
  <2>2. CASE Importable(c) /\ Propose(cfg)
    <3>1. \A e \in LiveCandidates : e.id = c.id => e = c
      BY <2>1, <2>2, CheckedIsLive DEF Importable, LiveCandidates
    <3>2. Agrees(cfg, LiveCandidates)
      BY <1>0, <2>1, <3>1, EditsAgree DEF Agrees
    <3>3. Agrees(disk, {c})
      BY <2>2 DEF Importable, Bindable, Agrees
    <3>4. prev' = prev /\ next' = cfg /\ pc' = "install" /\ cmd' = cmd /\ holder' = holder
      BY <2>2 DEF Propose, cmdVars
    <3>5. LiveCandidates' = LiveCandidates
      BY <2>1 DEF LiveCandidates
    <3> QED
      BY <2>1, <3>2, <3>3, <3>4, <3>5 DEF AgreesInv, Former, Agrees
  <2>3. CASE Exit(p)
    BY <1>0, <1>1, <2>1, <2>3
  <2> QED
    BY <1>3, <2>2, <2>3 DEF Import
<1>4. ASSUME NEW p \in Proc, Revoke(p) \/ ApplyCa(p)
      PROVE  AgreesInv'
  <2> DEFINE cfg == IF Revoke(p) THEN RemoveMatching(disk, cmd[p].scope) ELSE RemoveRetired(disk, seen[p].ledger)
  <2>1. Agrees(cfg, LiveCandidates)
    BY <1>0, EditsAgree
  <2>2. /\ registry' = registry /\ disk' = disk /\ (Propose(cfg) \/ Exit(p))
        /\ holder = p /\ cmd[p].op \in {"revoke", "apply"}
    BY <1>4 DEF Revoke, ApplyCa, AtBegin, At, caVars
  <2> HIDE DEF cfg
  <2>3. CASE Propose(cfg)
    BY <2>1, <2>2, <2>3 DEF AgreesInv, Agrees, LiveCandidates, Enrolling, Propose, cmdVars
  <2>4. CASE Exit(p)
    BY <1>0, <1>1, <2>2, <2>4
  <2> QED
    BY <2>2, <2>3, <2>4
<1>5. ASSUME NEW p \in Proc, InstallCaJson(p) \/ Rollback(p) \/ RestartCa(p) \/ RestartFails(p)
      PROVE  AgreesInv'
  BY <1>0, <1>5 DEF AgreesInv, Agrees, LiveCandidates, Enrolling, Former, TypeOK,
     InstallCaJson, Rollback, RestartCa, RestartFails, At, cmdVars
<1>6. ASSUME NEW p \in Proc,
             \/ InstallFails(p) \/ InstallFailsLate(p) \/ RollbackFails(p) \/ RollbackRestart(p)
             \/ Kill(p) /\ holder = p
      PROVE  AgreesInv'
  <2>1. registry' = registry /\ Exit(p) /\ disk' \in {disk, next} \ {NoConfig}
    BY <1>0, <1>6 DEF TypeOK, InstallFails, InstallFailsLate, RollbackFails, RollbackRestart, Kill, At, caVars
  <2> QED
    BY <1>1, <2>1
<1>7. ASSUME NEW p \in Proc, Commit(p)
      PROVE  AgreesInv'
  <2>1. /\ holder = p /\ pc = "commit" /\ registry' = CommittedRegistry(cmd[holder])
        /\ disk' = disk /\ Exit(p)
    BY <1>7 DEF Commit, At, caVars
  <2> QED
    BY <2>1, CommittedAgrees DEF AgreesInv, LiveCandidates, Enrolling, Exit
<1>8. ASSUME NEW p \in Proc, CommitFails(p)
      PROVE  AgreesInv'
  <2>1. holder = p /\ pc = "commit" /\ disk' = disk
    BY <1>8 DEF CommitFails, At, caVars
  <2>2. CASE Exit(p) /\ registry' = registry
    BY <1>0, <1>1, <2>1, <2>2
  <2>3. CASE pc' = "rollback" /\ UNCHANGED <<holder, prev, next>> /\ registry' = registry
    BY <2>1, <2>3 DEF AgreesInv, LiveCandidates
  <2>4. CASE /\ pc' = "rollback" /\ UNCHANGED <<holder, prev, next>>
             /\ registry' = CommittedRegistry(cmd[holder])
    BY <2>1, <2>4, CommittedAgrees DEF AgreesInv, LiveCandidates
  <2> QED
    BY <1>8, <2>1, <2>2, <2>3, <2>4 DEF CommitFails
<1>9. ASSUME NEW p \in Proc,
             Lock(p) \/ (\E c \in Command : LoadModel(p, c)) \/ (Kill(p) /\ holder # p)
      PROVE  AgreesInv'
  BY <1>9, OthersLeaveTransaction DEF AgreesInv, LiveCandidates, Enrolling, Former
<1>10. CASE \/ StepCaRestarts \/ (\E g \in grants : GrantEnds(g)) \/ EditPolicy
            \/ UNCHANGED vars
  BY <1>10 DEF AgreesInv, LiveCandidates, Enrolling, Former, StepCaRestarts, GrantEnds, EditPolicy, vars,
     caVars, txnVars, cmdVars
<1>11. CASE BackupRegistry \/ Restore
  BY <1>11 DEF AgreesInv, LiveCandidates, Enrolling, Former, BackupRegistry, Restore, RestoreRegistry,
     RevertLedger, RestoreCaJson, MayRestore, caVars, txnVars, cmdVars
<1> QED
  BY <1>2, <1>3, <1>4, <1>5, <1>6, <1>7, <1>8, <1>9, <1>10, <1>11 DEF Next, Transaction

\* A reservation left behind can always be taken up again, whatever provisioners the
\* site had before the registry and even if the ledger loses tombstones.
THEOREM PendingAlwaysResumable ==
  ASSUME Restores \subseteq {"ledger"}
  PROVE  Spec => []PendingResumable
<1>1. TypeOK /\ RegistryInv /\ AgreesInv => PendingResumable
  <2> SUFFICES ASSUME TypeOK, RegistryInv, AgreesInv,
                      NEW r \in registry, r.status = "Pending", ~KeysRevoked(ledger, r)
               PROVE  Reservable(AsCandidate(r))
    BY DEF PendingResumable
  <2> DEFINE c == AsCandidate(r)
  <2>1. c.id = r.id /\ c.key = r.key /\ c.ren = r.ren
    BY CandidateFields
  <2>2. Validate(registry)
    BY DEF RegistryInv
  <2>3. \A s \in registry : s # r => ~SharesKey(s, c) /\ (s.status = "Revoked" \/ s.id # c.id)
    BY <2>1, <2>2 DEF Validate, SharesKey
  <2>4. ~KeysRevoked(ledger, c) /\ CheckCandidate(registry, c)
    BY <2>1, <2>3 DEF KeysRevoked, SharesKey, CheckCandidate, SameKeys
  <2>5. Matches(registry, c) /\ ~MatchingStatus(registry, c, "Active")
    BY <2>1, <2>3 DEF Matches, MatchingStatus, LiveOf, Live, SameKeys
  <2>6. Agrees(disk, LiveCandidates) /\ c \in LiveCandidates
    BY CaOriginAssumption DEF TypeOK, AgreesInv, LiveCandidates, CandidatesOf, Live
  <2>7. disk.prov[c.id] # NoProv => disk.prov[c.id].ren = c.ren
    BY <2>6 DEF Agrees
  <2> QED
    BY <2>4, <2>5, <2>7 DEF Reservable
<1> QED
  BY TypeInit, TypeNext, RegistryInvInit, RegistryInvNext, TransactionInvInit, TransactionInvNext,
     AgreesInvInit, AgreesInvNext, <1>1, PTL DEF Spec

-----------------------------------------------------------------------------
(***************************************************************************)
(* Everything live is registered.  At a site that starts with the registry *)
(* every provisioner, wherever a rollback, an install or a restart may yet *)
(* bring it, is exactly the one of a live record.  Only a revocation takes *)
(* live records away, and when it commits, ca.json and step-ca have lost   *)
(* the provisioners of its scope already.                                  *)
(***************************************************************************)

\* The registry existed before the first device-bound provisioner.
FreshSite == \A cfg \in InitConfigs, i \in Id : cfg.prov[i] = NoProv

\* Neither the registry nor ca.json has been put back to an older state.
Undisturbed == restores = 0 \/ Restores \subseteq {"ledger"}

Registered(cfg, enrolled) ==
  \A i \in Id : cfg.prov[i] # NoProv => \E e \in enrolled : e.id = i /\ cfg.prov[i] = Pinned(e)

RegisteredInv ==
  Undisturbed =>
    /\ \A cfg \in Configurations : Registered(cfg, LiveCandidates)
    /\ grants \subseteq CandidatesOf(registry)

\* An edit pins at most a candidate that is then enrolled.
LEMMA EditsStayRegistered ==
  ASSUME NEW cfg \in Config, NEW enrolled \in SUBSET Candidate, Registered(cfg, enrolled)
  PROVE  /\ \A c \in Candidate :
              /\ Registered(ReconcileEnrollment(cfg, c), enrolled \union {c})
              /\ Registered(BindExistingRenewalProvisioner(cfg, c), enrolled \union {c})
         /\ \A scope : Registered(RemoveMatching(cfg, scope), enrolled)
         /\ \A led : Registered(RemoveRetired(cfg, led), enrolled)
<1>1. ASSUME NEW c \in Candidate,
             NEW new, new.prov[c.id] = Pinned(c), \A i \in Id \ {c.id} : new.prov[i] = cfg.prov[i]
      PROVE  Registered(new, enrolled \union {c})
  BY <1>1 DEF Registered
<1>2. ASSUME NEW scope
      PROVE  Registered(RemoveMatching(cfg, scope), enrolled)
  BY DEF Registered, RemoveMatching
<1>3. ASSUME NEW led
      PROVE  Registered(RemoveRetired(cfg, led), enrolled)
  BY DEF Registered, RemoveRetired
<1> QED
  BY <1>1, <1>2, <1>3, EditsPin

\* A provisioner that import may bind belongs to the live record of its candidate.
LEMMA BindableIsLive ==
  ASSUME NEW c \in Candidate, NEW enrolled \in SUBSET Candidate,
         Registered(disk, enrolled), Bindable(disk, c)
  PROVE  c \in enrolled
<1>1. PICK e \in enrolled : e.id = c.id /\ disk.prov[c.id] = Pinned(e)
  BY DEF Bindable, Registered, Candidate
<1>2. Pinned(e).ren = e.ren /\ Pinned(e).key = e.key
  BY DEF Pinned
<1>3. e.key \in Key
  BY DEF Candidate
<1>4. e.ren = c.ren /\ e.key = c.key
  BY <1>1, <1>2, <1>3, CaOriginAssumption DEF Bindable
<1>5. e = c
  BY <1>1, <1>4 DEF Candidate
<1> QED
  BY <1>5

\* A commit leaves what is served registered, and registers what it grants.
LEMMA CommitStaysRegistered ==
  ASSUME TypeOK, RegistryInv, RevocationInv, TransactionInv, RegisteredInv, Undisturbed,
         NEW p \in Proc, Commit(p)
  PROVE  /\ \A cfg \in Configurations' : Registered(cfg, LiveCandidates')
         /\ grants' \subseteq CandidatesOf(registry')
<1> DEFINE c == cmd[p]
<1>1. /\ holder = p /\ pc = "commit" /\ registry' = CommittedRegistry(c)
      /\ grants' = grants \union NewGrants(c)
      /\ UNCHANGED <<disk, running>> /\ prev' = NoConfig /\ next' = NoConfig
  BY DEF Commit, At, Exit, caVars
<1>2. Configurations' \subseteq Configurations /\ Configurations' \subseteq {next}
  BY <1>1 DEF TransactionInv, Configurations
<1>3. grants \subseteq CandidatesOf(registry)
  BY DEF RegisteredInv
<1>4. CASE c.op \in {"approve", "import"}
  <2>1. LiveCandidates' = LiveCandidates \union {c.req} /\ CandidatesOf(registry') = CandidatesOf(registry) \union {c.req}
    BY <1>1, <1>4, CommittedCandidates DEF LiveCandidates
  <2>2. NewGrants(c) \subseteq {c.req}
    BY DEF NewGrants
  <2> QED
    BY <1>1, <1>2, <1>3, <2>1, <2>2 DEF RegisteredInv, Registered
<1>5. CASE c.op = "revoke"
  <2>1. /\ CandidatesOf(registry') = CandidatesOf(registry)
        /\ Live(registry') = Live(registry) \ OfScope(registry, c.scope)
    BY <1>1, <1>5, CommittedCandidates
  <2>2. \A i \in c.scope : next.prov[i] = NoProv
    BY <1>1, <1>5, CaOriginAssumption DEF RevocationInv, Revoking
  <2>3. \A e \in LiveCandidates : e.id \notin c.scope => e \in LiveCandidates'
    BY <2>1, CandidateFields DEF LiveCandidates, CandidatesOf, OfScope
  <2>4. \A cfg \in Configurations' : Registered(cfg, LiveCandidates')
    BY <1>2, <2>2, <2>3 DEF RegisteredInv, Registered
  <2>5. NewGrants(c) = {}
    BY <1>5 DEF NewGrants
  <2> QED
    BY <1>1, <1>3, <2>1, <2>4, <2>5
<1>6. CASE c.op = "apply"
  <2>1. registry' = registry /\ NewGrants(c) = {}
    BY <1>1, <1>6, CommittedCandidates DEF NewGrants
  <2> QED
    BY <1>1, <1>2, <1>3, <2>1 DEF RegisteredInv, LiveCandidates
<1> QED
  BY <1>1, <1>4, <1>5, <1>6, CommittedCandidates

LEMMA ProposeStaysRegistered ==
  ASSUME TypeOK, RegisteredInv, Undisturbed' => Undisturbed,
         NEW p \in Proc, NEW cfg, Propose(cfg), UNCHANGED <<caVars, grants>>,
         LiveCandidates \subseteq LiveCandidates', CandidatesOf(registry) \subseteq CandidatesOf(registry'),
         Undisturbed => Registered(cfg, LiveCandidates')
  PROVE  RegisteredInv'
<1>1. Configurations' \subseteq Configurations \union {cfg}
  BY DEF Configurations, Propose, caVars
<1> QED
  BY <1>1 DEF RegisteredInv, Registered

\* A step that only moves configurations around leaves everything registered.
LEMMA MovesStayRegistered ==
  ASSUME RegisteredInv, Undisturbed' => Undisturbed, Configurations' \subseteq Configurations,
         registry' = registry, grants' \subseteq grants
  PROVE  RegisteredInv'
<1>1. LiveCandidates' = LiveCandidates
  BY DEF LiveCandidates
<1> QED
  BY <1>1 DEF RegisteredInv

THEOREM RegisteredInvInit ==
  ASSUME FreshSite
  PROVE  Init => RegisteredInv
  BY DEF Init, RegisteredInv, Registered, Configurations, FreshSite

THEOREM RegisteredInvNext ==
  TypeOK /\ RegistryInv /\ RevocationInv /\ TransactionInv /\ RegisteredInv /\ [Next]_vars => RegisteredInv'
<1> SUFFICES ASSUME TypeOK, RegistryInv, RevocationInv, TransactionInv, RegisteredInv, [Next]_vars
             PROVE  RegisteredInv'
  OBVIOUS
<1> USE CaOriginAssumption
<1>0. /\ disk \in Config /\ disk \in Configurations /\ disk # NoConfig /\ registry \in SUBSET Record
      /\ LiveCandidates \in SUBSET Candidate
  BY CandidateFields DEF TypeOK, Configurations, LiveCandidates, CandidatesOf, Live
<1>1. Undisturbed => Registered(disk, LiveCandidates)
  BY <1>0 DEF RegisteredInv
<1>2. ASSUME NEW p \in Proc, Approve(p)
      PROVE  RegisteredInv'
  <2> DEFINE c == cmd[p].req
  <2>1. c \in Candidate /\ UNCHANGED <<caVars, grants, restores>>
    BY <1>2, CommandFields DEF TypeOK, Approve, AtBegin, At, savedVars
  <2>2. CASE Reservable(c) /\ registry' = Reserve(registry, c) /\ Propose(ReconcileEnrollment(disk, c))
    <3>1. LiveCandidates' = LiveCandidates \union {c} /\ CandidatesOf(registry') = CandidatesOf(registry) \union {c}
      BY <1>0, <2>1, <2>2, ReserveCandidates DEF Reservable, LiveCandidates
    <3>2. Undisturbed => Registered(ReconcileEnrollment(disk, c), LiveCandidates')
      BY <1>0, <1>1, <2>1, <3>1, EditsStayRegistered
    <3>3. Undisturbed' => Undisturbed
      BY <2>1 DEF Undisturbed
    <3> QED
      BY <2>1, <2>2, <3>1, <3>2, <3>3, ProposeStaysRegistered
  <2>3. CASE Exit(p) /\ UNCHANGED registry
    BY <2>1, <2>3, MovesStayRegistered DEF Exit, Configurations, Undisturbed, caVars
  <2> QED
    BY <1>2, <2>2, <2>3 DEF Approve
<1>3. ASSUME NEW p \in Proc, Import(p) \/ Revoke(p) \/ ApplyCa(p)
      PROVE  RegisteredInv'
  <2> DEFINE cfg == IF Import(p) THEN BindExistingRenewalProvisioner(disk, cmd[p].req)
                    ELSE IF Revoke(p) THEN RemoveMatching(disk, cmd[p].scope)
                    ELSE RemoveRetired(disk, seen[p].ledger)
  <2>1. /\ UNCHANGED <<registry, caVars, grants, restores>> /\ (Propose(cfg) \/ Exit(p))
        /\ Import(p) => cmd[p].req \in Candidate /\ (Propose(cfg) => Bindable(disk, cmd[p].req) \/ Exit(p))
    BY <1>3, CommandFields DEF TypeOK, Import, Importable, Revoke, ApplyCa, AtBegin, At, savedVars
  <2>2. Undisturbed /\ Propose(cfg) /\ ~Exit(p) => Registered(cfg, LiveCandidates)
    <3> SUFFICES ASSUME Undisturbed, Propose(cfg), ~Exit(p)
                 PROVE  Registered(cfg, LiveCandidates)
      OBVIOUS
    <3>1. CASE Import(p)
      <4>1. LiveCandidates \union {cmd[p].req} = LiveCandidates
        BY <1>0, <1>1, <2>1, <3>1, BindableIsLive
      <4> QED
        BY <1>0, <1>1, <2>1, <3>1, <4>1, EditsStayRegistered
    <3>2. CASE ~Import(p)
      BY <1>0, <1>1, <3>2, EditsStayRegistered
    <3> QED
      BY <3>1, <3>2
  <2> HIDE DEF cfg
  <2>3. LiveCandidates' = LiveCandidates /\ (Undisturbed' => Undisturbed)
    BY <2>1 DEF LiveCandidates, Undisturbed
  <2>4. CASE Propose(cfg) /\ ~Exit(p)
    BY <2>1, <2>2, <2>3, <2>4, ProposeStaysRegistered
  <2>5. CASE Exit(p)
    BY <2>1, <2>3, <2>5, MovesStayRegistered DEF Exit, Configurations, caVars
  <2> QED
    BY <2>1, <2>4, <2>5
<1>4. ASSUME NEW p \in Proc, InstallCaJson(p) \/ Rollback(p) \/ RestartCa(p) \/ RestartFails(p)
      PROVE  RegisteredInv'
  <2>1. Configurations' \subseteq Configurations
    BY <1>0, <1>4 DEF TypeOK, Configurations, InstallCaJson, Rollback, RestartCa, RestartFails, At
  <2>2. UNCHANGED <<registry, grants, restores>>
    BY <1>4 DEF InstallCaJson, Rollback, RestartCa, RestartFails, savedVars
  <2> QED
    BY <2>1, <2>2, MovesStayRegistered DEF Undisturbed
<1>5. ASSUME NEW p \in Proc,
             \/ InstallFails(p) \/ InstallFailsLate(p) \/ RollbackFails(p) \/ RollbackRestart(p)
             \/ Kill(p) /\ holder = p
      PROVE  RegisteredInv'
  <2>1. UNCHANGED <<registry, grants, restores>> /\ Exit(p)
    BY <1>5 DEF InstallFails, InstallFailsLate, RollbackFails, RollbackRestart, Kill, savedVars
  <2>2. disk' \in {disk, next} \ {NoConfig} /\ running' \in {running, disk, Down}
    BY <1>0, <1>5 DEF TypeOK, InstallFails, InstallFailsLate, RollbackFails, RollbackRestart, Kill, At, caVars
  <2>3. Configurations' \subseteq Configurations
    BY <1>0, <2>1, <2>2 DEF TypeOK, Configurations, Exit
  <2> QED
    BY <2>1, <2>3, MovesStayRegistered DEF Undisturbed
<1>6. ASSUME NEW p \in Proc, Commit(p)
      PROVE  RegisteredInv'
  <2>1. Undisturbed' => Undisturbed
    BY <1>6 DEF Undisturbed, Commit, savedVars
  <2> QED
    BY <1>6, <2>1, CommitStaysRegistered DEF RegisteredInv
<1>7. ASSUME NEW p \in Proc, CommitFails(p)
      PROVE  RegisteredInv'
  <2>1. holder = p /\ pc = "commit" /\ UNCHANGED <<disk, running, grants, restores>>
    BY <1>7 DEF CommitFails, At, caVars, savedVars
  <2>2. Configurations' \subseteq Configurations /\ (Undisturbed' => Undisturbed)
    BY <1>7, <2>1 DEF CommitFails, Exit, Configurations, Undisturbed
  <2>3. CASE registry' = registry
    BY <2>1, <2>2, <2>3, MovesStayRegistered
  <2>4. CASE registry' = CommittedRegistry(cmd[p]) /\ cmd[p].op \in {"approve", "import"}
    <3>1. LiveCandidates \subseteq LiveCandidates' /\ CandidatesOf(registry) \subseteq CandidatesOf(registry')
      BY <2>1, <2>4, CommittedCandidates DEF LiveCandidates
    <3> QED
      BY <2>1, <2>2, <3>1 DEF RegisteredInv, Registered
  <2> QED
    BY <1>7, <2>3, <2>4 DEF CommitFails
<1>8. ASSUME NEW p \in Proc,
             Lock(p) \/ (\E c \in Command : LoadModel(p, c)) \/ (Kill(p) /\ holder # p)
      PROVE  RegisteredInv'
  <2>1. UNCHANGED <<grants, restores>>
    BY <1>8 DEF Lock, LoadModel, Kill, savedVars
  <2> QED
    BY <1>8, <2>1, OthersLeaveTransaction, MovesStayRegistered DEF Configurations, Undisturbed
<1>9. CASE StepCaRestarts \/ (\E g \in grants : GrantEnds(g)) \/ EditPolicy \/ BackupRegistry \/ UNCHANGED vars
  <2>1. registry' = registry /\ restores' = restores /\ grants' \subseteq grants
    BY <1>9 DEF StepCaRestarts, GrantEnds, EditPolicy, BackupRegistry, vars, savedVars
  <2>2. Configurations' \subseteq Configurations
    BY <1>0, <1>9 DEF TypeOK, Configurations, StepCaRestarts, GrantEnds, EditPolicy, BackupRegistry, vars,
       caVars, txnVars
  <2> QED
    BY <2>1, <2>2, MovesStayRegistered DEF Undisturbed
<1>10. CASE RestoreRegistry \/ RestoreCaJson
  <2>1. ~Undisturbed'
    BY <1>10 DEF TypeOK, RestoreRegistry, RestoreCaJson, MayRestore, Undisturbed
  <2> QED
    BY <2>1 DEF RegisteredInv
<1>11. CASE RevertLedger
  <2>1. UNCHANGED <<registry, grants, disk, running, prev, next>> /\ (Undisturbed' => Undisturbed)
    BY <1>11 DEF TypeOK, RevertLedger, Undisturbed, caVars, txnVars
  <2> QED
    BY <2>1, MovesStayRegistered DEF Configurations
<1> QED
  BY <1>2, <1>3, <1>4, <1>5, <1>6, <1>7, <1>8, <1>9, <1>10, <1>11 DEF Next, Transaction, Restore

\* Whatever the CA can issue for is registered, until an operator puts back an older
\* registry or ca.json.
THEOREM LiveAlwaysRegistered ==
  ASSUME FreshSite
  PROVE  Spec => []LiveIsRegistered
<1>1. TypeOK /\ RegisteredInv => LiveIsRegistered
  <2> SUFFICES ASSUME TypeOK, RegisteredInv, restores = 0
               PROVE  /\ \A cfg \in {disk, running} \ {Down}, i \in Id : cfg.prov[i] # NoProv =>
                           \E r \in LiveOf(registry, i) : r.ren = cfg.prov[i].ren /\ r.key = cfg.prov[i].key
                      /\ \A g \in grants : \E r \in registry : r.id = g.id /\ SameKeys(r, g)
    BY DEF LiveIsRegistered
  <2>1. /\ \A cfg \in Configurations : Registered(cfg, LiveCandidates)
        /\ grants \subseteq CandidatesOf(registry)
    BY DEF RegisteredInv, Undisturbed
  <2>2. ASSUME NEW cfg \in {disk, running} \ {Down}, NEW i \in Id, cfg.prov[i] # NoProv
        PROVE  \E r \in LiveOf(registry, i) : r.ren = cfg.prov[i].ren /\ r.key = cfg.prov[i].key
    <3>1. cfg \in Configurations
      BY CaOriginAssumption DEF TypeOK, Configurations
    <3>2. PICK e \in LiveCandidates : e.id = i /\ cfg.prov[i] = Pinned(e)
      BY <2>1, <2>2, <3>1 DEF Registered
    <3>3. PICK r \in Live(registry) : e = AsCandidate(r)
      BY DEF LiveCandidates, CandidatesOf
    <3>4. Pinned(e).ren = e.ren /\ Pinned(e).key = e.key
      BY DEF Pinned
    <3> QED
      BY <3>2, <3>3, <3>4, CandidateFields DEF LiveOf
  <2>3. \A g \in grants : \E r \in registry : r.id = g.id /\ SameKeys(r, g)
    BY <2>1, CandidateFields DEF CandidatesOf, SameKeys
  <2> QED
    BY <2>2, <2>3
<1> QED
  BY TypeInit, TypeNext, RegistryInvInit, RegistryInvNext, RevocationInvInit, RevocationInvNext,
     TransactionInvInit, TransactionInvNext, RegisteredInvInit, RegisteredInvNext, <1>1, PTL DEF Spec

-----------------------------------------------------------------------------
(***************************************************************************)
(* A revocation is never refused.  The ledger's entries are enrollments    *)
(* the registry knows, and a valid registry gives no two of them a common  *)
(* key, so extending the ledger by any records keeps it valid.             *)
(***************************************************************************)
LedgerInv == restores = 0 => ledger \subseteq CandidatesOf(registry)

THEOREM LedgerInvInit == Init => LedgerInv
  BY DEF Init, LedgerInv

THEOREM LedgerInvNext == TypeOK /\ RegistryInv /\ LedgerInv /\ [Next]_vars => LedgerInv'
<1> SUFFICES ASSUME TypeOK, RegistryInv, LedgerInv, [Next]_vars PROVE LedgerInv'
  OBVIOUS
<1> USE CaOriginAssumption
<1>1. ASSUME NEW p \in Proc, Approve(p)
      PROVE  LedgerInv'
  <2>1. CandidatesOf(registry) \subseteq CandidatesOf(registry')
    BY <1>1 DEF Approve, Reserve, CandidatesOf
  <2> QED
    BY <1>1, <2>1 DEF LedgerInv, Approve, policyVars, savedVars
<1>2. ASSUME NEW p \in Proc, Revoke(p)
      PROVE  LedgerInv'
  <2>1. ledger' \subseteq ledger \union CandidatesOf(registry)
    BY <1>2 DEF Revoke, PrepareRevocationPolicyUpdate, LedgerToExtend, LedgerWith, Selected, CandidatesOf
  <2> QED
    BY <1>2, <2>1 DEF LedgerInv, Revoke, savedVars
<1>3. ASSUME NEW p \in Proc, Commit(p) \/ CommitFails(p)
      PROVE  LedgerInv'
  <2>1. UNCHANGED <<ledger, restores>> /\ registry' \in {registry, CommittedRegistry(cmd[holder])} /\ pc = "commit"
    BY <1>3 DEF Commit, CommitFails, At, policyVars, savedVars
  <2>2. CandidatesOf(registry) \subseteq CandidatesOf(registry')
    BY <2>1, CommittedCandidates
  <2> QED
    BY <2>1, <2>2 DEF LedgerInv
<1>4. ASSUME NEW p \in Proc,
             \/ Lock(p) \/ Import(p) \/ ApplyCa(p) \/ InstallCaJson(p) \/ InstallFails(p) \/ InstallFailsLate(p)
             \/ RestartCa(p) \/ RestartFails(p) \/ Rollback(p) \/ RollbackFails(p) \/ RollbackRestart(p)
             \/ Kill(p) \/ \E c \in Command : LoadModel(p, c)
      PROVE  LedgerInv'
  BY <1>4 DEF LedgerInv, Lock, Import, ApplyCa, InstallCaJson, InstallFails, InstallFailsLate, RestartCa,
     RestartFails, Rollback, RollbackFails, RollbackRestart, Kill, LoadModel, policyVars, savedVars
<1>5. CASE StepCaRestarts \/ (\E g \in grants : GrantEnds(g)) \/ EditPolicy \/ BackupRegistry \/ UNCHANGED vars
  BY <1>5 DEF LedgerInv, StepCaRestarts, GrantEnds, EditPolicy, BackupRegistry, vars, policyVars, savedVars
<1>6. CASE Restore
  <2>1. restores' # 0
    BY <1>6 DEF TypeOK, Restore, RestoreRegistry, RevertLedger, RestoreCaJson
  <2> QED
    BY <2>1 DEF LedgerInv
<1> QED
  BY <1>1, <1>2, <1>3, <1>4, <1>5, <1>6 DEF Next, Transaction

\* Two enrollments that a valid registry knows have no key in common.
LEMMA KnownKeysDiffer ==
  ASSUME NEW reg, Validate(reg), NEW e \in CandidatesOf(reg), NEW f \in CandidatesOf(reg), e # f
  PROVE  e.key # f.key /\ e.ren # f.ren
<1>1. PICK r \in reg : e = AsCandidate(r)
  BY DEF CandidatesOf
<1>2. PICK s \in reg : f = AsCandidate(s)
  BY DEF CandidatesOf
<1>3. r # s
  BY <1>1, <1>2
<1> QED
  BY <1>1, <1>2, <1>3, CandidateFields DEF Validate, SharesKey

\* No state a failed, killed or completed command leaves makes revoke fail closed.
THEOREM RevokeAlwaysAccepted ==
  ASSUME FreshSite
  PROVE  Spec => []RevokeNeverRefused
<1>1. TypeOK /\ RegistryInv /\ RegisteredInv /\ LedgerInv => RevokeNeverRefused
  <2> SUFFICES ASSUME TypeOK, RegistryInv, RegisteredInv, LedgerInv, restores = 0,
                      NEW scope \in SUBSET Id
               PROVE  /\ RequireRegistryCoverage(scope)
                      /\ LedgerValid(LedgerWith(ledger, Selected(scope)))
    BY DEF RevokeNeverRefused
  <2>1. Registered(disk, LiveCandidates)
    BY CaOriginAssumption DEF TypeOK, RegisteredInv, Undisturbed, Configurations
  <2>2. ASSUME NEW i \in scope, disk.prov[i] # NoProv
        PROVE  \E r \in LiveOf(registry, i) : r.ren = disk.prov[i].ren
    <3>1. PICK e \in LiveCandidates : e.id = i /\ disk.prov[i] = Pinned(e)
      BY <2>1, <2>2 DEF Registered
    <3>2. PICK r \in Live(registry) : e = AsCandidate(r)
      BY DEF LiveCandidates, CandidatesOf
    <3>3. Pinned(e).ren = e.ren
      BY DEF Pinned
    <3> QED
      BY <3>1, <3>2, <3>3, CandidateFields DEF LiveOf
  <2>3. LedgerWith(ledger, Selected(scope)) \subseteq CandidatesOf(registry)
    BY DEF LedgerInv, LedgerWith, Selected, CandidatesOf
  <2>4. LedgerValid(LedgerWith(ledger, Selected(scope)))
    <3>1. Validate(registry)
      BY DEF RegistryInv
    <3> QED
      BY <2>3, <3>1, KnownKeysDiffer DEF LedgerValid
  <2> QED
    BY <2>2, <2>4 DEF RequireRegistryCoverage
<1> QED
  BY TypeInit, TypeNext, RegistryInvInit, RegistryInvNext, RevocationInvInit, RevocationInvNext,
     TransactionInvInit, TransactionInvNext, RegisteredInvInit, RegisteredInvNext,
     LedgerInvInit, LedgerInvNext, <1>1, PTL DEF Spec
=============================================================================
