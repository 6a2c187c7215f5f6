# A verification of grafhome-ca

grafhome-ca manages a private SSH and X.509 certificate authority: a
smallstep `step-ca` on one origin host, hosts and users that enroll device keys
with it, and a git-tracked policy that says who may. This directory holds TLA+
models of the program, TLC configurations that check them on small instances,
and TLAPS proofs of the results that matter most for instances of any size.
Paths below are relative to the repository; `bin` is `src/bin/grafhome-ca.rs`.

## 1. Inventory

| Component | State it keeps | Operations | What makes it correct | Module |
|---|---|---|---|---|
| CA-origin transactions (`bin`: approve, import, revoke, `apply ca`) | the CA lock; the position in a transaction | load the model, lock, check, write ledger / reserve / propose `ca.json`, install with rollback, commit the registry | failed or killed commands leave a state every command can go on from; revoked keys stay dead; two stores never contradict each other in the unsafe direction | `CaOrigin` |
| Enrollment registry (`src/enrollment_registry.rs`) | records Pending / Active / Revoked with two key fingerprints | reserve, activate, mark_revoked, check_candidate, validate, load, save | one live record per identity, no key twice, tombstones for ever | `EnrollmentRegistry` |
| Revocation ledger (`src/policy/mod.rs`, `bin`) | `policy/revocations.toml`, SSH and X.509 tables | extend, validate, look up keys | never loses a tombstone to a concurrent command; leads `ca.json` and the registry | `CaOrigin` |
| Runtime provisioners (`src/runtime_provisioners.rs`, `src/x509.rs`) | the provisioners in `ca.json` | reconcile, bind, remove, purge, materialize | one per identity, pinned to the enrolled key, X.509 denied for SSH ones; claims of one policy | `CaOrigin`, `EnrollmentKeys`, `CertificateTerms` |
| step-ca under systemd | the configuration it was started with | restart, health check, issue, renew | external: modelled from how `bin` uses it | all |
| Grants and requests (`src/enrollment.rs`) | pending request on the client; one-time token | publish, approve, match, consume | a grant serves only the request it answers | `EnrollClient`, `CaOrigin` |
| Enrollment client (`bin`: enroll host/user, `--restart`) | key material, renewal password, pending file | create keys, wait, complete, prove renewal | a crash never leaves half a credential in use; completion means unattended renewal | `EnrollClient` |
| SSH renewal (`bin`: renew host/user) | certificate file, renewal lock, stored password | due check, renew, replace | no overlap of renewals; an endless certificate is kept | `EnrollClient`, `HostSsh` |
| Host policy apply and KRL (`bin`: `ssh apply`) | managed sshd/ssh files, KRLs, `.apply.lock` | compile, compare, write, validate, reload, restore | a failure restores every file; the KRL never shrinks; sshd runs what is installed | `HostSsh` |
| X.509 host lifecycle (`src/x509.rs`) | key, pending key, certificate, renewal JWK | enroll, renew, publish, after-renew | key and certificate match; a working certificate survives failures | `X509Lifecycle` |
| Enrollment key migration (`bin`: migrate, materialize) | three key files per role; the materialized `ca.json` | convert, place, check; merge; operator's rollout | the only private key is never lost; outstanding tokens still verify | `EnrollmentKeys` |
| Policy and durations (`src/policy/`) | reviewed policy and its checkouts | parse, validate, infer, derive claims | what the policy allows, step-ca signs, and no longer than that | `CertificateTerms` |
| Configuration, schema, provenance, executable trust | pure checks of a file-system snapshot | load, validate | no protocol state | - |
| Rendering of distributed files | none | generate | which files exist and what they depend on | `HostSsh` (partly) |
| Public export, status | none | read | - | - |
| Installer, unit files, release scripts | none that the program reads | install, wait for the origin | - | - |

How they interact. Operators run commands on the origin; each loads the whole
site model first and only then waits for the lock file next to `ca.json`. Under
the lock it reads and writes three files in a fixed order - the tracked
revocation ledger, `ca.json`, the untracked registry - and restarts step-ca,
which keeps serving the configuration it was started with. Migration and
materialization of the enrollment keys take the same lock; what they prepare is
installed later, by hand. Hosts and users talk to step-ca only: they consume a
grant once and renew with a JWK that a provisioner pins to their key. The
policy, with the ledger in it, travels in a git checkout that every machine
pulls in its own time, so that three copies of it are in play: the reviewed
one, the CA's and the client's. On a host `ssh apply` turns the checkout into
sshd's files, the ledger into a KRL; `ssh renew host` and `ssh enroll host`
replace the certificate that the same sshd presents.

What is hard: a command dies between any two effects; the rollback itself
fails; models loaded before the lock are stale under it; step-ca and sshd run
an older configuration than the one on disk; an operator restores one of the
three files from a backup; a file is replaced but its directory sync fails;
timers and people run the same renewal at once; an older policy arrives after a
newer one; the password of a credential sits in several places; a grant
outlives what it was given for. `PROJECT.json` lists each hazard at its line
with the properties that cover it.

## 2. Modules

Each component has a module with its state and actions, a module
`...Properties` with its promises and fairness, a module `MC...` with the
instances for TLC and, where something is proved, a module `...Proofs`.

| Module | Models | Corresponds to |
|---|---|---|
| `EnrollmentRegistry` | the registry as a set of records and its pure operations | `src/enrollment_registry.rs` |
| `CaOrigin` | the four commands, the lock, the install with its rollback, kills, step-ca restarts, restores | `bin` 2916-3082, 3650-3713, 3935-3995, 4262-4329, 4461-4485, 5529-6120, 6421-6561; `runtime_provisioners.rs`; `policy/mod.rs` 725-858 |
| `EnrollmentAuthority` | abstract specification: known, serving, dead | the promise of README "Revocation" and docs/architecture.md "Safety Contract" |
| `CaOriginRefinement` | the mapping of `CaOrigin` onto `EnrollmentAuthority`; `CaOriginRefinementProofs` proves it | |
| `X509Lifecycle` | enroll, renew and status of one certificate on its host, as overlapping processes; the material lock, the files, kills, faults, the clock, a restore of the host | `src/x509.rs` 226-290, 506-805, 808-1042, 1138-1500; `bin` 3997-4235, 4262-4329, 5753-5795 |
| `HostSsh` | apply, renewal and enrollment of a host against its managed files, its certificate and its sshd; roll-back and its failure, kills, hand edits, policies that come and go | `bin` 815-904, 4331-4455, 4541-4964, 5320-5442, 6723-6741, 7286-7342; `render.rs` 64-180, 616-668; `policy/mod.rs` 75-83, 183-201 |
| `EnrollClient` | enrollment of a user or host on its own machine, every file of the material, the stores of the password, grants, the renewal beside it | `bin` 1145-1192, 2407-2509, 3199-3648, 3762-3797, 3857-3863, 5444-5527, 6391-6408, 6614-6866, 7117-7142, 7257-7366; `enrollment.rs` 77-274 |
| `EnrollmentKeys` | migration file by file, materialization, the operator's rollout, approvals and revocations between them | `bin` 759-784, 2511-2790, 5267-5318, 6421-6438, 7370-7427; `runtime_provisioners.rs` 678-815, 1096-1334; the rollout after README |
| `CertificateTerms` | durations, their fallbacks and validation; the claims derived from them; grants and renewals held against the claims; three copies of the policy | `policy/mod.rs` 111-138, 226-293, 484-573, 885-997, 1475-1550; `bin` 928-966, 1836-1840, 3451-3482, 3715-3760, 4461-4486, 5495-5527, 6642-6681; `runtime_provisioners.rs` 67-124, 271-413, 848-922 |

The exact lines of every definition are in the `map` of `PROJECT.json`.

### How state corresponds

`CaOrigin`. `registry` is `enrollments/registry.json` (a vector in the file;
order carries nothing and validation forbids equal keys, so a set). `ledger` is
`policy/revocations.toml`, one candidate per entry, its two tables told apart by
the kind of the identity. `disk` is `config/ca.json`, reduced to one optional
renewal provisioner per identity - renewal JWK, pinned key, X.509 denied or
not - and the retired provisioner types still in it. `running` is the
configuration step-ca serves, or `Down`. `holder` is the owner of the lock
file, `pc` its place in the transaction, `prev` and `next` the local variables
`previous` and `content` of `install_ca_json_with_rollback`. `seen[p]` is the
model a command loaded before it asked for the lock. `grants` are one-time
tokens neither used nor expired. `retired` is a history variable: enrollments
whose revocation returned success.

`X509Lifecycle`. `key`, `pending` and `cert` are `key.pem`,
`key.pem.pending` and `cert.pem`; a certificate is whose key it is for, when it
ends, and whether it is complete and says exactly what policy declares. `cred`
is the directory of the renewal JWK, or `Partial` when some of its files are
gone. `holder` is the owner of the material lock. `run[r]` holds the local
variables of one process: what it read without the lock (`pend`, `chain`, `t`),
its verdict `usable`, the policy `seen` it loaded, the key it has signed and its
candidate. `hostLedger` is the tombstones in the host's policy checkout;
`pinned`, `tombstones` and `requests` are the CA's side as this host meets it:
the transactions behind them are those of `CaOrigin`. `service` and `torn` are
history variables: whether the service was told of the live certificate, and
whether a publish was cut between its renames.

`HostSsh`. `files` maps each managed path to what is in it: an edition of the
rendered text, the CA roots, or for a KRL the set of keys it revokes; `Absent`
and `Damaged` are also contents. `previous`, `want` and `left` are the local
variables of `apply_host_policy_locked`: what it backed up, what it wants and
how far it is through the paths, which it takes in the order of their names.
`sshd` is the fragment and the certificate the daemon read when it was last
reloaded. `seen[r]` is the policy a run loaded before the lock. `distributed`,
`applied`, `mixed` and `stale` are history: the keys completed applies have put
in each KRL, the policy applied last, and whether a dead run, a reported failure
of the rollback or a hand edit accounts for a difference.

`EnrollClient`. `priv`, `pub`, `cert` are the SSH key pair and its certificate,
`jwkPub` and `jwkPriv` the renewal JWK (`jwkPriv` with the password it is sealed
with), `stored` the systemd credential or the host's `renewal-password` file,
`ring` the copy in the keyring, `pending` the file `pending-enrollment.json`.
`pinned`, `tombstones`, `grants` are what this machine meets of the CA.
`run[r].overtaken` and `run[r].overEndless` are history: somebody revoked,
replaced or forgot keys while the run was at work; a renewal began while an
effectively infinite certificate was in place.

`EnrollmentKeys`. `live` is `ca.json`: two enrollment provisioners, each with
the key its `encryptedKey` holds or none, and the enrolled renewal provisioners.
`files[r]` are the three files of role r. `staged` is the output of materialize
and the `ca.json` it was made from. `tokens` are grants not yet used, each with
the key that signed it. `enrolled` is history.

`CertificateTerms`. `committed`, `caPolicy` and `clientPolicy[c]` are the three
copies of the policy. `enrollment` and `renewal` are the claims in `ca.json`.
`op[o]` is an operation in flight with the policy it loaded. A duration is a
number and its unit. A user's row of a policy joins the user and its one client:
`active` is the status of the user, which the inference of maxima and the
validation look at (`policy/mod.rs` 506, 980), `enrolls` that of the client row,
which approvals, grants and renewals need as well (`Enrollable`). An hour has `Hour` minutes and `MaxDuration` is the end of
the range of Go's `time.Duration`, so that the case of a duration longer than
the largest whole hour exists at small numbers too.

### How actions correspond

Each command of `CaOrigin` is `LoadModel`, `Lock`, one action for its checks and
first write (`Approve`, `Import`, `Revoke`, `ApplyCa`), and the shared install:
`InstallCaJson` (backup and atomic replace), `RestartCa` or `RestartFails`,
`Commit` or `CommitFails` (the `after_activate` callback, and for revoke the
save that follows), `Rollback` and `RollbackRestart`. Every point at which the
code can return an error is either a branch of its action or `Kill`, which ends
a command between any two effects and releases the lock, as the kernel does.
`StepCaRestarts` covers reboots, systemd and a restart job that a killed command
left behind.

In `X509Lifecycle` an enrollment is `StartEnroll`, `LockMaterial`, `ChooseKey`,
`ChooseJwk`, `RemoveJwk` (twice: the removal of a directory is not atomic),
`PlaceJwk`, `PrintRequest`; the lock ends with `prepare_enrollment`, before the
request is printed. A renewal is `StartAssess`, `ReadCert`, `ReadKey` (the three
reads of `assess`, without the lock), `TryLock`, `Reassess`, `ProbeFails` or
`CreateCsr`, `Sign`, `Validate`, the three steps of `Publish`, `RunAfterRenew`.
Each has its failing counterpart with the kind and the `usable` that the code
passes to `refused` or `unavailable`, and `Kill` ends a process anywhere.

In `HostSsh` an apply is `Start` (load the policy, fetch, render), `Acquire`
(lock, read the installed KRLs and extend them, compare), one `Write` per path,
`ValidateAndReload`; after `ApplyFails` one `Restore` per path and
`RestoreReload`, or `RestoreFails`. A renewal is `StartRenewal`, `Issue`,
`Load`. An enrollment is `Start`, `Issue`, `Load`, then an apply, then `Issue`
and `Load` once more: the proof of renewal.

In `EnrollClient` an enrollment is `StartEnroll`, `Resume` or `Restart`, then
the material file by file, `Publish`, `TakeGrant`, `Issue`, `WriteCert`,
`Prove`, `WriteCert`, `Finish`; `Refused` has every check that ends it. A
renewal is `StartRenew`, `Renew`, `WriteCert`.

In `EnrollmentKeys` a migration is `Start`, `Lock`, and per role `Skip`,
`GiveUp`, or `Convert`, three times `Place` and `Check`; a materialization is
`Materialize` and `WriteOut`. `Rollout` and `Bootstrap` are the operator's.

In `CertificateTerms` an operation is its load with all checks of the policy
(`StartApprove`, `StartApply`) and its commit (`FinishApprove`, `FinishApply`),
since `CaOrigin` has what happens between them. `Redeem` and `Renewable` are
what a client asks of step-ca.

### What the models leave out, and why it does not matter to the properties

- Template files under `templates/ssh`: their content is inlined into `ca.json`
  and no later command reads them.
- In `CaOrigin`, claims, durations, principals and names: `apply ca` and
  approvals may rewrite them, so installing an equal model configuration is
  allowed. The claims are the subject of `CertificateTerms`.
- Duplicate provisioner names in `ca.json`: every command refuses them.
- Restores are taken while no command holds the lock, as maintenance is done.
- A grant counts as handed out when the command commits.
- X.509: what is printed and when `--quiet` hides it; the check of the pinned
  root; certificates after the first when a run covers several, since each has
  its own files and lock; a power cut before the directory was synced. A killed
  removal may leave any part of a credential, `Partial`. With the two private
  files still there a renewal gets as far as its token (`CreateCsr`), and the CA
  then refuses it, since the JWK is tombstoned (`SignFails`); without them it
  fails before (`IssueFails`).
- `HostSsh`: the text of the files; the CA keys change only with the roots,
  which are constant; macOS and Termux; the time between a new certificate and
  its reload is short against a tick (`Age`).
- `EnrollClient`: enrollments of one identity do not overlap (one person at one
  terminal; hosts take no lock, which the hazards list); ssh-agent and the text
  of the grant document; attempts to open the credential with a wrong password
  change nothing and are not steps.
- `EnrollmentKeys`: temporary directories and the plaintext key in one of them;
  a power cut before a directory is synced.
- `CertificateTerms`: durations of several components and fractions; the minimum
  that step-ca enforces; the relations of `validate` that are not about
  durations. Explicit durations between the largest whole hour and the end of
  the range are in the model (`boundary` in `MCCertificateTerms`).

Definitions marked "Mutant" in the modules are not part of any specification:
each is the form a definition would take under a plausible bug, and the run
named with it in `PROJECT.json` finds the property violated when it replaces the
original. They show that the properties depend on the code.

## 3. Runs

Constants not named below are model values. All bounds are in the `.cfg` files
and in the `MC` modules.

| Run | Instance | Shows |
|---|---|---|
| `base` | two operators, a host and its user, three requests that share a renewal JWK or a key across identities, all failures and late faults | `TypeOK`, `RegistrySavable`, `LiveIsRegistered`, `PendingResumable`, `LedgerKeepsTombstones`, `LedgerLeads`, `ImplementsAuthority` |
| `legacy` | one operator, a `ca.json` with unbound provisioners, import, approve, revoke, apply; the registry is put back to an older backup, or the ledger loses entries, once | `ActiveIsBound`, `RetiredStaysDead` |
| `ca_restore` | one operator, a host and its X.509 certificate, policy rows that come and go, retired ACME, `ca.json` restored once from any backup the program made, late faults | `RevokeNeverRefused`, `ApplyPurgesTombstones`, `RevocationCompletes` |
| `late_failure` (violation) | the fault `afterWrite` | `GivesUpClean` fails: see below |
| `grant` (violation) | no late faults | `RevokedCannotIssue` fails |
| `x509_overlap` | two processes, enroll, cron and status, two keys and two JWKs, lifetime 2, clock to 2, a loss, faults and kills; 1.3 million states | `TypeOK`, `StaleServiceReported`, `PairPartedOnlyByACut`, `UnlockedVerdictSound`, `ApprovedMaterialHeld`, `LockedSuccessWorks` |
| `x509_recovery` | one process at a time, enroll, cron or renew by hand, one replacement of the keys, lifetime 4, clock to 4, faults and kills | `EnrollmentEndsInACertificate` |
| `host` | two runs of apply, enroll and renew, three policies (two ledgers of which neither contains the other, a host that stops serving), one fault of any kind, one change of policy; 195 thousand states | `TypeOK`, `RevocationsStay`, `OnePolicyAtRest`, `SshdAsInstalled`, `PolicyConverges`, `SshdRecovers` |
| `host_fragment` (violation) | one apply without faults, all seven paths in the order of their names, a host that stops serving | `FragmentSupported` fails |
| `enroll` | a user or a host, an enroller and a renewer, three key pairs and JWKs, two passwords, one cut, one upset (revoke, replace, remove, forget); 386 thousand states | `TypeOK`, `StoredPasswordOpens`, `CompletionIsRenewable`, `InitialCertificateSurvives`, `EnrollmentCompletes` |
| `keys` | two commands, four sites (migratable, with a wrong key, half new, new), two cuts, approvals, revocations and rollouts; 267 thousand states | `TypeOK`, `MarkerMeansComplete`, `RolloutKeepsSigning`, `TokensVerify`, `RolloutKeepsEnrollments`, `MigrationCompletes` |
| `policy` | two operators, two users and a host, nine policies of which two are refused, one with a client row that is not active, one commit; 136 thousand states | `TypeOK`, `RefusedOnlyWhileBehind`, `DeactivationShortensRenewals`, `RenewalsResume` |

Bounds, and why they are enough. In `CaOrigin`, two processes: the lock admits
one transaction at a time, so all a further process adds is one more stale
snapshot. Two identities suffice for a scope that contains one or both, and for
a key shared across identities. Two keys and two renewal JWKs give all ways two
requests can overlap (both, either, none). One restore of either store shows
that the other one alone remembers; after a restore of both nothing would.
Nothing else is bounded: commands repeat for ever, and the state space is
finite because records, tombstones and grants are sets.

For X.509, two processes are one that holds the lock and one that waits for it
or reads beside it; a third would only wait too. A renewal by hand is
one of cron without the probe and with failures that never exit 0, so the
overlap has cron. Two keys and JWKs give one
replacement. `MaxTime` is the only bound in a guard besides `MaxLosses`: the
clock stops there, so in `x509_recovery` the last certificate is issued at the
latest at `MaxTime`.

For a host, two runs are one with the lock and one that waits for it with an
older policy. `MaxChanges = 1` lets the policy go from the first to either of
the others: to a different ledger and text, or to a host that is no server. The
four paths of `KrlsAndFragments` keep one KRL and one fragment on each side,
which is all that a rollback, an order of writes and a reload distinguish. A
life of one tick makes each certificate expire before the next renewal. One
fault may strike at each of the steps; the theorems of section 4 cover any
number of faults, changes, runs and paths.

For an enrollment, three keys allow a replacement and a half-made pair; two
passwords a wrong and a right one; the cut and the upset come in either order
at every step. For the key migration, two commands are one in the lock and one
that waits; two cuts interrupt a migration and its repetition; four sites are
those that `Convertible` and `Expected` tell apart. For the policy, one commit
is a change under operations in flight; `Hour = 2` and `MaxDuration = 5` are the
smallest with an hour that is more than a minute and a longest duration that is
no whole hour.

Symmetry is used in runs without liveness only: on the processes for `CaOrigin`,
on processes, keys and JWKs for `X509Lifecycle`. Deadlock is checked everywhere
but in `policy`, where nothing remains to be done once the last commit was of a
policy that every command refuses.

Fairness of `ca_restore`. A command that holds the lock and can go on does
(weak fairness of `Transaction`): the code waits for nothing but child
processes. An operator told that a revocation failed repeats it, and not every
attempt at one of its steps fails or is killed (strong fairness of each step of
that revocation). Without the repetition the code promises nothing: there is no
recovery at start-up, and the ledger keeps the conservative state.

Fairness of `x509_recovery`. A running command goes on until it ends (every wait
of the code has a timeout), and cron starts a renewal whenever none runs. The
lock, the signature, the validation and the renames succeed now and then, not
every time (strong fairness). The property itself says when this must suffice:
operators and crashes leave the host alone from some time on (`Settled`) and the
CA goes on accepting one enrollment. The CA's candidate that must come now and
then is what the pinned template issues (`SignWell`).

Fairness of `host`. A started run goes on, the kernel hands `.apply.lock` to
some waiter, and the timers of apply and renew keep firing (strong fairness of
their starts, since another run may keep them from it for a while). Faults and
changes of policy are bounded, so they end.

Fairness of `enroll`. A started invocation goes on. A person who is not yet
served enrolls again, and by and by with the password that opens the existing
credential: the code asks for it but cannot know it. The CA's operator answers
a request that is waited for before its grant expires, now and then.

Fairness of `keys`. A started command goes on, somebody gets the lock, and a
migration is repeated; cuts are bounded.

Fairness of `policy`. Checkouts are pulled, and an operator runs `apply ca`
after a change of policy until one run completes, as README.md 341-347
tells him to; approvals in flight may end in any way.

### Disagreements found

- `late_failure`. In `install_ca_json_with_rollback`, `root_step_bin(model)?`
  stands between the write of `ca.json` and the closure that is rolled back
  (`bin` 6494-6496). If it fails, or if the directory sync in
  `write_secret_file_atomic` does, the command fails with the new `ca.json` in
  place, and the next restart of step-ca activates it. The registry still holds
  the reservation, so `LiveIsRegistered` and `RevokeNeverRefused` hold even so.
- `grant`. Revocation removes the renewal provisioner, but a token minted by an
  approval up to 15 minutes earlier is signed by the shared enrollment
  provisioner and still issues a first certificate.
- `host_fragment`. docs/architecture.md 107-109 says that an OpenSSH fragment
  must not reference missing support files, since a failing `RevokedKeys` breaks
  all public-key authentication. `ssh apply` goes through the changed paths in
  the order of their names (`bin` 4576). On a host that stops serving,
  `/etc/ssh/grafhome/` comes before `/etc/ssh/sshd_config.d/`, so the KRL and
  the user CA keys are gone while the fragment still names them; a run killed
  there leaves it so. The other way round, when a host starts serving, the order
  is the right one.

Two more have no run of their own: they are the stated exceptions of properties
that pass, and TLC finds them when the exception is dropped.

- `LockedSuccessWorks`, the disjunct `ForgivenUnassessed`. A renewal assesses
  without the lock, takes it and assesses again. When the second assessment fails,
  the failure carries the verdict of the first (`refused(first.usable())`,
  `src/x509.rs` 1223-1225), so `--if-reachable` may exit 0 although the run that
  held the lock died between its renames meanwhile and left a pair that does not
  match. `x509.rs` 1090-1093 says "only while the live certificate works", and
  README.md 438 that a certificate which does not match its key exits nonzero.
  It takes a cut and a failing assessment at once; the next run sees the pair. The
  property bounds the case: the certificate is there, whole, and for the live key
  unless a publish was cut.
- `InitialCertificateSurvives`, the disjunct `RenewalFromBefore`.
  docs/architecture.md 93-95 and README.md 554-555 say that an effectively
  infinite certificate is preserved, but only renewals take the renewal lock. One
  that began while the previous certificate was due, or before there was any,
  and waits for its signature writes its finite certificate over the infinite one
  that an enrollment has written in between.

Two facts of the policy that are no disagreement with a text, but that the
theorem `OwnGrantAlwaysSigned` states as its exceptions or the instance
contains: nothing relates `default_ttl` of hosts and
`--cert-ttl` to the enrollment maximum (`bin` 3745, 5281), so a grant that was
approved can be one that step-ca refuses under the claims the same approval
installed; and explicit durations longer than the largest whole hour exceed the
claim that stands for "unlimited".

## 4. Proofs

`EnrollmentRegistryProofs` proves three lemmas about the pure operations for
every registry: a reservation or an activation of a candidate that passed
`check_candidate` keeps the registry valid (`ReserveValid`, `ActivateValid`), and
`mark_revoked` keeps it valid and keeps and adds tombstones (`MarkRevokedValid`).

`CaOriginProofs` proves, from the named assumption `CaOriginAssumption` alone
(constants are well typed, sentinels are not values, imports are SSH):

1. `TypeCorrect`: `Spec => []TypeOK`.
2. `RegistryAlwaysSavable`: `Spec => []RegistrySavable`. Validity of the registry
   is not inductive. `RegistryInv` adds that the backup is valid too and that
   the candidate of a running approval or import still passes `check_candidate`:
   the check was made at the beginning of the transaction and is used at its
   end, and only the lock keeps the registry unchanged in between.
3. `LedgerMonotone`: `Spec => LedgerKeepsTombstones`, for any number of
   processes with any stale snapshots.
4. `LedgerAlwaysLeads`: `Spec => LedgerLeads`. `RevocationInv` says that past its
   first phase a revocation has every selected key in the ledger, and that what
   it installs, and what a rollback would restore, differ only inside its scope.
5. `RetiredAlwaysDead`: if nothing but the ledger is ever restored,
   `Spec => []RetiredStaysDead`. `RetiredInv` says that the registry holds the
   tombstone, and that `ca.json`, the running configuration and the local
   `previous` and `content` of the running command are free of the keys. The
   last two are needed for the rollback; they hold because a revocation ends
   when it completes and every other command starts from a clean `ca.json`.
6. `ApplyAlwaysPurges`: `Spec => []ApplyPurgesTombstones`, with no hypothesis
   about faults and restores. `TransactionInv` says that while the lock is held
   `ca.json` is what the command proposed, that at the commit step-ca serves just
   that, and that the proposal pins the candidate or is purged: what was checked
   at the beginning still describes what is committed.
7. `ActiveAlwaysBound`: if `ca.json` is not restored and no directory sync fails,
   `Spec => []ActiveIsBound`. `BoundInv` says it of every configuration in sight
   (`ca.json`, the running one, `previous` and `content` of the command) against
   the registry and its backup at once: any of the former can become current, any
   of the latter can come back. A checked candidate that shares a key with a
   known enrollment is that enrollment, which is what keeps it over an edit.
   Both hypotheses are needed: TLC violates the invariant within eight states when
   `legacy` is given either. With a failing sync an import whose
   record is saved although `save` reports an error rolls `ca.json` back, and an
   Active record stands beside a provisioner that is not pinned. That is why the
   runs that check this property do not have that fault.
8. `PendingAlwaysResumable`: if nothing but the ledger is restored,
   `Spec => []PendingResumable`. `AgreesInv` says that `ca.json`, and what a
   rollback would restore, never contradict a live record, and neither did the
   former `ca.json` contradict the candidate of the command in flight.
9. `LiveAlwaysRegistered`: if the registry existed before the first device-bound
   provisioner (`FreshSite`), `Spec => []LiveIsRegistered`. `RegisteredInv` says
   that every configuration in sight has provisioners of live records only. The
   delicate step is the commit of a revocation, the only one by which live
   records end: at that point `RevocationInv` and `TransactionInv` give that the
   provisioners of its scope are gone from disk and from step-ca.
10. `RevokeAlwaysAccepted`: on a `FreshSite`, `Spec => []RevokeNeverRefused`.
   `LedgerInv` says that the ledger has only enrollments that the registry knows;
   a valid registry gives no two of them a common key, so the ledger stays valid
   whatever is added to it, and coverage follows from `RegisteredInv`.

`FreshSite` is what all runs but `legacy` start from. On a site with older
provisioners the code itself refuses a revocation until `import` has
registered them; the run `legacy` is about those.

`CaOriginRefinementProofs` proves `OriginImplementsAuthority`: on a `FreshSite`
where only the ledger is ever restored, `Spec => ImplementsAuthority`, so the
transactions implement `EnrollmentAuthority`. A step is a reservation when an
approval reserves, a `Serve` when the running step-ca changes, a retirement when a
revocation commits, and a stutter otherwise. What the abstract steps demand comes
from the invariants above: that only what is known is served from
`RegisteredInv`, that nothing retired is from `RetiredInv`, and that step-ca is
already without the retired keys when a retirement is recorded from
`RevocationInv` and `TransactionInv`.

`X509LifecycleProofs` proves, from `X509LifecycleAssumption` alone:

1. `TypeCorrect`: `Spec => []TypeOK`, which says that exactly the process between
   taking and releasing it holds the material lock.
2. `PairedUnlessCut`: `Spec => []PairPartedOnlyByACut`. `PairInv` adds that the key
   a renewal had signed is still the enrolled one, and that its candidate is for
   that key: true because the signature is waited for under the lock.
3. `UnlockedAssessmentSound`: `Spec => []UnlockedVerdictSound`. `VerdictInv` says
   that a staged key is new, so nothing read earlier can match it by accident,
   and that a match once read stays one. It needs the key renamed first.
4. `PinnedIsHeld`: `Spec => []ApprovedMaterialHeld`. `HeldInv` says that every
   request ever printed, or about to be, is for what the host holds unless a
   tombstone ended it; a host's policy lags behind the CA, never leads.
5. `SuccessWorks`: `Spec => LockedSuccessWorks`, for every exit of a process that
   took the lock. From `Vouched`: what it assessed under the lock stays true until
   it publishes, and then holds of the new pair. For the exit after a failed second
   assessment, which goes by the verdict from before the lock, only less is true,
   and `Remembered` with `PairInv` gives it: a certificate once seen does not
   vanish, every live certificate is whole, and it is for the live key unless a
   publish was cut, since nobody else is between two renames.
6. `ServiceReported`: `Spec => []StaleServiceReported`.

`Quietly`, `Apart` and the lemmas named after what a step does to its process say
once what most steps leave alone, so that each invariant's proof is about the few
steps that can disturb it.

`EnrollmentKeysProofs` proves, from `EnrollmentKeysAssumption` (in the first
`ca.json` a role that exists has its encrypted key), `TypeCorrect`,
`MarkerAlwaysComplete`, `SigningAlwaysKept`, `TokensAlwaysVerify` and
`EnrollmentsAlwaysKept`, for any number of commands, cuts and enrollments. None of
the promises is inductive. `IInv` adds:

- `JobInv`, about a command in flight: the enrollment keys it read are still those of
  `ca.json`, although a rollout may install another one meanwhile (`ReadsLive`);
  the files before the one it places are in place and are those of the key it
  read, and the marker is not (`PlacesInOrder`); what it is about to write out
  succeeds what it read (`OutSucceeds`).
- `FilesMatch`: files of a role are those of the key pair in `ca.json`, which is
  why a repetition of a migration cannot mix two pairs.
- `StagedSucceeds`: a staged `ca.json` succeeds the one it was made from, with
  the same keys and without a private one only where the files can sign. The
  rollout installs it only over that one.

`HostSshProofs` proves, from `HostSshAssumption` alone and so for any set of
policies, paths, keys, runs and faults, `TypeCorrect`, `RevocationsAlwaysStay`,
`OnePolicyAlwaysAtRest` and `SshdAlwaysAsInstalled`. `IInv` has:

- `Kept`: the keys that completed applies have distributed are in the installed
  KRLs and, while an apply is under way, also in the ones a rollback would put
  back. The second half is what keeps the first over `Restore`.
- `InProgress`: `want` is what the loaded policy compiles to over `previous`, and
  each file is the one or the other, by the phase and by whether it is among
  the paths that are left.
- `OnePolicy`: unless a kill, a failed rollback or a hand edit accounts for it,
  the files (while an apply is under way, the backed-up ones) are those of the
  policy applied last.
- `SshdInv`: sshd has read what is installed, or the holder of the lock will
  reload it, whether it goes on or goes back; and its certificate is the newest,
  or a run stands before its reload.

`RunKeeps`, `HolderKeeps`, `HolderReleases` and `BackgroundKeeps` say once which
parts of `IInv` a step of a run without the lock, of the holder, of its end and of
the surroundings leaves alone.

`SupportLostByRemovalAlone` is the other side of the finding about
`FragmentSupported`. If `/etc/ssh/grafhome` precedes `/etc/ssh/sshd_config.d` in
the order of the paths (`SupportFirst`, true of the names in the code),
`Spec => SupportLostOnlyByRemoval`: a fragment whose files are there loses one only
to an apply that is about to remove the fragment, to a rollback to files that had
no fragment or one already unsupported, or to a hand edit. So removal, by an
apply or by the rollback of a first apply, is all that a correction has to
reverse; installing in this order is right. The proof takes the first path that
is left, and with it the least element of a set of indices (`LeastNatural`).

`CertificateTermsProofs` proves, from `TermsAssumption` and `SetUpAssumption`
(the first policy is one that commands accept):

1. `TypeCorrect`: `Spec => []TypeOK`.
2. `AlwaysRefusedOnlyWhileBehind`, for every set of policies: `ClaimsOfAccepted`
   shows that validation orders the lifetimes of each role as step-ca compares
   them, the fallbacks and the claim that stands for "unlimited" included.
3. `OwnGrantAlwaysSigned`: `Spec => OwnGrantIsSigned`. The enrollment maximum
   bounds what a grant may ask for, but for the policies it names. `Approving`
   says that an approval in flight has a lifetime its policy allows
   (`ApprovedTtl`). No run checks this property.
4. `RenewalsAlwaysAsLongAsNeeded`: `Spec => []RenewalsAsLongAsNeeded`. The claims
   of each renewal provisioner are those of one accepted policy, and where that
   policy leaves the maximum open under an unlimited enrollment maximum it is the
   longest lifetime of its default and its active users, no longer
   (`LongestCandidate`). This is what the liveness property
   `DeactivationShortensRenewals` needs of every step. No run checks it by name.

`EnrollClientProofs` proves, from `EnrollClientAssumption` (there is a key and
a password other than any given one; sentinels are not values), for any number of
overlapping invocations, restarts and cuts:

1. `TypeCorrect`: `Spec => []TypeOK`. `Shape` says what an invocation carries at
   each of its labels: that a credential gets a password and a request names two
   keys depends on what the invocation began with, many steps earlier.
2. `StoredPasswordAlwaysOpens`: `Spec => []StoredPasswordOpens`. While a user has a
   key whose password is still to be stored, or a host has a password whose key is
   still to be sealed, another enrollment could break the pair. `PasswordInv`
   adds what the enrollment in between relies on, and `Exclusive`: one enrollment
   of the identity at a time. No lock of the code ensures that; it is an
   assumption of the model (section 2), in the guards of its starts, and the
   hazard of two host enrollments at once has no property for that reason.
   Renewals overlap with everything, and with each other up to their lock.
3. `CompletedEnrollmentRenews`: `Spec => CompletionIsRenewable`. `ProofInv` carries
   the success of the proof of renewal to the end of the enrollment: nobody but
   who `overtaken` records changes the key, the password that is found or the pair
   that the CA pins.
4. `InfiniteCertificateSurvives`: `Spec => InitialCertificateSurvives`. `EndlessInv`
   says that an infinite certificate is never due, so no renewal begins under one,
   and that an enrollment about to prove renewal in place has replaced whatever was
   there by a finite certificate of its own; that no other enrollment writes an
   infinite one in between is `Exclusive` again.

The theorems hold for all values of the constants that meet the assumptions.
Model-checked only:

- liveness under fairness, which is out of the prover's reach:
  `RevocationCompletes`, `EnrollmentEndsInACertificate`, `PolicyConverges`,
  `SshdRecovers`, `EnrollmentCompletes`, `MigrationCompletes`,
  `DeactivationShortensRenewals`, `RenewalsResume`;
- `RetiredStaysDead` when the registry is put back to an older state (the run
  `legacy`): the theorem covers restores of the ledger only.

No recursive definition is proved about: the models have none.

## 5. Plan

1. `RetiredStaysDead` and the refinement when the registry is put back to an older
   state: the ledger then has to carry what the registry forgot.
2. The abstract specification of a client's enrollment, and its refinement.
3. Overlapping host enrollments, which take no lock around the credential.

### Not modelled

- Configuration, schema, provenance and executable trust: checks of what one
  process finds in the file system, with no state of their own.
- Rendering: the text of the files. `HostSsh` has which files exist for which
  role and what depends on the policy.
- Public export and status read and print.
- The retries of the CA health check and `wait-origin`: the outcome of the check
  is nondeterministic in `CaOrigin`.
- The installer, the systemd units and the release scripts: shell outside of the
  program's state.
- Within modelled components: ssh-agent handling, Termux and macOS; host
  enrollments that overlap each other; power cuts between a rename and the sync of
  its directory, other than the error that `save` reports; plaintext temporary
  directories of a migration; step-ca's own minimum durations; compound and
  fractional durations; the relations of `validate` about names and endpoints;
  conversion of legacy policy.
