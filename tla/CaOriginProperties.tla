------------------------- MODULE CaOriginProperties -------------------------
(***************************************************************************)
(* What the CA-origin transactions promise, and the fair specification     *)
(* under which an interrupted revocation is finished.                      *)
(***************************************************************************)
EXTENDS CaOrigin

Labels == {"free", "begin", "install", "activate", "commit", "rollback", "restart"}

\* Every variable keeps its type, and the lock holder is the process that has a
\* transaction: the shape of the state that with_ca_lock and the commands keep.
TypeOK ==
  /\ registry \subseteq Record
  /\ ledger \subseteq Candidate
  /\ declared \in Policies
  /\ disk \in Config
  /\ running \in Config \union {Down}
  /\ holder \in Proc \union {None}
  /\ pc \in Labels
  /\ pc = "free" <=> holder = None
  /\ prev \in Config \union {NoConfig}
  /\ next \in Config \union {NoConfig}
  /\ pc \in {"install", "activate", "commit", "rollback", "restart"} => next # NoConfig
  /\ pc \in {"activate", "commit", "rollback", "restart"} => prev # NoConfig
  /\ cmd \in [Proc -> Command \union {Idle}]
  /\ holder # None => cmd[holder] # Idle
  /\ seen \in [Proc -> Snapshot]
  /\ grants \subseteq Candidate
  /\ retired \subseteq Candidate
  /\ savedRegistry \subseteq Record
  /\ savedConfig \in Config \union {NoConfig}
  /\ restores \in 0 .. MaxRestores

\* Provisioner i of a configuration carries one of the two keys of an enrollment.
Carries(cfg, t) ==
  /\ cfg # Down
  /\ cfg.prov[t.id] # NoProv
  /\ cfg.prov[t.id].ren = t.ren \/ cfg.prov[t.id].key = t.key

-----------------------------------------------------------------------------

(***************************************************************************)
(* The registry never refuses its own save.  `save` validates again before *)
(* it writes, and approve, import and revoke save only after step-ca runs  *)
(* on the new configuration, so a registry that failed validation there    *)
(* would strand a live change without its record.                          *)
(***************************************************************************)
RegistrySavable ==
  /\ Validate(registry)
  /\ pc = "commit" => Validate(CommittedRegistry(cmd[holder]))

(***************************************************************************)
(* A tombstone is never lost from the tracked ledger by a command, however *)
(* the commands that loaded older policies interleave.                     *)
(***************************************************************************)
LedgerKeepsTombstones == [][RevertLedger \/ ledger \subseteq ledger']_vars

(***************************************************************************)
(* Once a revocation has completed, that identity never again has a        *)
(* provisioner with either of the two keys, neither in ca.json nor in the  *)
(* running step-ca, even if one of the two stores that remember the keys   *)
(* is put back to an older state.                                          *)
(***************************************************************************)
RetiredStaysDead ==
  \A t \in retired : ~Carries(disk, t) /\ ~Carries(running, t)

(***************************************************************************)
(* Revoking is two-phase: ca.json loses a provisioner to a revocation, and *)
(* a record becomes Revoked, only when the ledger already has its keys, so *)
(* a failure in between leaves the conservative state.                     *)
(***************************************************************************)
LedgerLeads ==
  [][holder # None /\ cmd[holder].op = "revoke" =>
       \A r \in registry :
         \/ KeysRevoked(ledger, r)
         \/ /\ disk.prov[r.id] # NoProv => disk'.prov[r.id] # NoProv
            /\ r \in registry']_vars

(***************************************************************************)
(* Approval reserves before it activates: whatever the CA can issue for, a *)
(* provisioner on disk, one still served by an older step-ca process, or   *)
(* an outstanding token, is known to the registry, and a provisioner is    *)
(* known by a live record, as long as no backup of ca.json is put back.    *)
(***************************************************************************)
LiveIsRegistered ==
  restores = 0 =>
  /\ \A cfg \in {disk, running} \ {Down}, i \in Id : cfg.prov[i] # NoProv =>
       \E r \in LiveOf(registry, i) : r.ren = cfg.prov[i].ren /\ r.key = cfg.prov[i].key
  /\ \A g \in grants : \E r \in registry : r.id = g.id /\ SameKeys(r, g)

(***************************************************************************)
(* From any state a failed or killed command leaves, a revocation of any   *)
(* scope is accepted: the check that fails closed has nothing to object to *)
(* and the extended ledger is valid.  It does object to a provisioner that *)
(* came back with a backup of ca.json.                                     *)
(***************************************************************************)
RevokeNeverRefused ==
  pc \in {"free", "begin"} /\ restores = 0 =>
    \A scope \in SUBSET Id :
      /\ RequireRegistryCoverage(scope)
      /\ LedgerValid(LedgerWith(ledger, Selected(scope)))

(***************************************************************************)
(* A reservation left Pending by a failed or killed approval can be taken  *)
(* up again by the same request, unless its keys were tombstoned since.    *)
(***************************************************************************)
PendingResumable ==
  pc \in {"free", "begin"} =>
    \A r \in registry :
      r.status = "Pending" /\ ~KeysRevoked(ledger, r) => Reservable(AsCandidate(r))

(***************************************************************************)
(* A registered enrollment is bound: while its record is Active, its       *)
(* provisioner certifies no key but the recorded one, so its renewal JWK   *)
(* cannot obtain a certificate for a key that no revocation would list.    *)
(***************************************************************************)
ActiveIsBound ==
  \A r \in registry : r.status = "Active" =>
    \A cfg \in {disk, running} \ {Down} :
      cfg.prov[r.id] # NoProv /\ cfg.prov[r.id].ren = r.ren =>
        cfg.prov[r.id] = Pinned(r)

(***************************************************************************)
(* apply ca leaves no X.509 provisioner with a key tombstoned in the       *)
(* policy it loaded, wherever that provisioner came from.                  *)
(***************************************************************************)
ApplyPurgesTombstones ==
  pc = "commit" /\ cmd[holder].op = "apply" /\ running # Down =>
    \A i \in Id : ~IsRevokedX509(running, seen[holder].ledger, i)

(***************************************************************************)
(* A command that gives up without running its rollback leaves ca.json as  *)
(* it found it: approvals "roll back if CA activation or health            *)
(* verification fails".                                                    *)
(***************************************************************************)
GivesUpClean ==
  [][holder # None /\ holder' = None => disk' = disk]_vars

(***************************************************************************)
(* Revocation stops issuance at once: no outstanding token of a revoked    *)
(* enrollment can still be exchanged at the running step-ca.               *)
(***************************************************************************)
RevokedCannotIssue ==
  running # Down =>
    \A r \in registry : r.status = "Revoked" =>
      /\ ~Carries(running, r)
      /\ AsCandidate(r) \notin grants

-----------------------------------------------------------------------------
(***************************************************************************)
(* Fairness: a command that runs makes progress; an operator who was told  *)
(* that a revocation failed repeats it, and not every attempt at one of    *)
(* its steps is killed or fails.                                           *)
(***************************************************************************)
Repeated(p, c) ==
  /\ SF_vars(LoadModel(p, c))
  /\ SF_vars(cmd[p] = c /\ Lock(p))
  /\ SF_vars(cmd[p] = c /\ Revoke(p))
  /\ SF_vars(cmd[p] = c /\ InstallCaJson(p))
  /\ SF_vars(cmd[p] = c /\ RestartCa(p))
  /\ SF_vars(cmd[p] = c /\ Commit(p))

FairSpec ==
  /\ Spec
  /\ \A p \in Proc : /\ WF_vars(Transaction(p))
                     /\ \A c \in {d \in Command : d.op = "revoke"} : Repeated(p, c)

(***************************************************************************)
(* An interrupted revocation is finished by repeating it: keys in the      *)
(* ledger end up tombstoned in the registry as well.  It cannot be, and is *)
(* refused, while a restored backup of ca.json holds a revoked provisioner.*)
(***************************************************************************)
RevocationCompletes ==
  \A c \in {d.req : d \in {e \in Command : e.op \in {"approve", "import"}}} :
    (c \in ledger) ~>
      (restores > 0 \/ \A r \in registry : SameKeys(r, c) => r.status = "Revoked")
=============================================================================
