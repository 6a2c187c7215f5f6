-------------------------- MODULE HostSshProperties --------------------------
(***************************************************************************)
(* What ssh apply, ssh renew host and ssh enroll host owe the machine they *)
(* run on.                                                                 *)
(***************************************************************************)
EXTENDS HostSsh

\* Types; exactly the run that writes or restores holds .apply.lock.
TypeOK ==
  /\ policy \in Policies
  /\ files \in [Path -> Content]
  /\ cert \in 0 .. Life
  /\ sshd \in Sshd
  /\ applyLock \in Run \union {None}
  /\ renewLock \in Run \union {None}
  /\ pc \in [Run -> {"idle", "await", "write", "validate", "restore", "rereload", "issue", "load"}]
  /\ op \in [Run -> {"apply", "enroll", "renew", "prove", None}]
  /\ seen \in [Run -> Policies \union {None}]
  /\ want \in [Path -> Content] /\ previous \in [Path -> Content]
  /\ left \subseteq Path
  /\ distributed \in [Krl -> SUBSET (UserKey \union HostKey)]
  /\ applied \in Policies \union {NoRole}
  /\ mixed \in BOOLEAN /\ stale \in BOOLEAN
  /\ faults \in 0 .. MaxFaults /\ changes \in 0 .. MaxChanges
  /\ \A r \in Run :
       pc[r] \in {"write", "validate", "restore", "rereload"} <=> applyLock = r

\* docs/configuration.md: a valid installed KRL keeps every revocation that a
\* completed apply has distributed, whatever older or incomplete ledger the
\* next runs load and wherever they fail; runs overlap and load before they lock.
RevocationsStay ==
  \A k \in Krl : ValidKrl(files[k]) => distributed[k] \subseteq files[k].keys

\* Between applies the managed files are those of one policy, the one that was
\* applied last: a failed apply leaves no mixture, unless a run died in the
\* middle, reported that its rollback failed, or somebody edited the files.
OnePolicyAtRest ==
  applyLock = None /\ ~mixed =>
    /\ \A f \in Path \ Krl : files[f] = Rendered(applied)[f]
    /\ \A k \in Krl : IF Rendered(applied)[k] = Absent THEN files[k] = Absent
                      ELSE ValidKrl(files[k]) /\ Rendered(applied)[k].keys \subseteq files[k].keys

\* sshd runs with the fragment and the certificate that are on disk, unless a
\* run that changed them is still on its way, died, or reported its failure.
SshdAsInstalled ==
  (\A r \in Run : pc[r] \notin Unsettled) /\ ~stale =>
    sshd = [conf |-> files["sshdConf"], cert |-> cert]

\* When policy and faults have settled, applies that keep coming end in the
\* files of the policy for good, also those that had loaded an older one.
PolicyConverges ==
  <>[](/\ \A f \in Path \ Krl : files[f] = Rendered(policy)[f]
       /\ \A k \in Krl : Rendered(policy)[k] # Absent =>
            ValidKrl(files[k]) /\ Rendered(policy)[k].keys \subseteq files[k].keys)

\* Whatever was killed between a new certificate or fragment and its reload,
\* sshd presents the live certificate under the installed fragment again and again.
SshdRecovers == []<>(cert > 0 /\ sshd = [conf |-> files["sshdConf"], cert |-> cert])

\* docs/architecture.md: an OpenSSH fragment must not reference missing support
\* files, because RevokedKeys failures break all public-key authentication.
FragmentSupported ==
  files["sshdConf"] # Absent => files["userKrl"] # Absent /\ files["userCa"] # Absent
=============================================================================
