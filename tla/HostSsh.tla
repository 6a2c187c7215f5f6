------------------------------- MODULE HostSsh -------------------------------
(***************************************************************************)
(* OpenSSH on one managed host: `ssh apply` reconciles the managed files   *)
(* with the site policy, `ssh renew host` replaces the host certificate,   *)
(* and `ssh enroll host` does both once its grant is there.  A run loads   *)
(* the policy first and then works for as long as it takes; apply and the  *)
(* apply part of enroll exclude each other by .apply.lock, only renewals   *)
(* by the renewal lock, and nothing else does.  sshd keeps the fragment    *)
(* and the certificate it read when it was last reloaded.                  *)
(***************************************************************************)
EXTENDS Sequences, FiniteSets, Naturals, Functions

CONSTANTS
  Run,            \* invocations that may overlap
  Ops,            \* what they run: subset of {"apply", "enroll", "renew"}
  UserKey,        \* revocable user keys
  HostKey,        \* revocable host keys
  Edition,        \* contents of the rendered files
  Policies,       \* site policies that may be distributed to this host
  FirstPolicies,  \* those it may have when it enrolls
  PathOrder,      \* the managed paths in the order of their names
  Life,           \* life of a new certificate, in ticks
  Due,            \* step ssh needs-renewal from this much life left
  Faults,         \* subset of {"fail", "kill", "damage"}
  MaxFaults,      \* bound on the faults
  MaxChanges,     \* bound on the changes of policy
  Absent, Damaged, Roots, None

VARIABLES
  policy,         \* the site policy in this host's config root
  files,          \* the managed files: path -> contents
  cert,           \* life left in the host certificate; 0: expired or none yet
  sshd,           \* the fragment and the certificate that sshd has read
  applyLock,      \* run holding .apply.lock, or None
  renewLock,      \* run holding .grafhome-ca-renew-host.lock, or None
  pc, op, seen,   \* per run: where it is, what it does, the policy it loaded
  want,           \* desired files of the holder of the apply lock
  previous,       \* what the managed paths held when it took the lock
  left,           \* paths it has still to write, or to restore
  distributed,    \* history: keys completed applies have put in each KRL
  applied,        \* history: the policy of the last completed apply
  mixed,          \* history: a cut apply or a hand edit may have mixed policies
  stale,          \* history: a run died or reported failure before its reload
  faults,         \* number of faults so far
  changes         \* number of policy changes so far

fileVars == <<files, cert, sshd>>
lockVars == <<applyLock, renewLock>>
runVars  == <<pc, op, seen>>
txnVars  == <<want, previous, left>>
histVars == <<distributed, applied, mixed, stale>>
counts   == <<faults, changes>>
vars == <<policy, fileVars, lockVars, runVars, txnVars, histVars, counts>>

-----------------------------------------------------------------------------
(***************************************************************************)
(* Policies and the files they ask for.                                    *)
(***************************************************************************)

Role == {"server", "client"}

\* What a policy means to this host: its SSH roles, the text of its files and
\* the revocation ledger that came with it.
Policy == [role : SUBSET Role, edition : Edition, revoked : SUBSET (UserKey \union HostKey)]

NoRole == [role |-> {}, edition |-> CHOOSE e \in Edition : TRUE, revoked |-> {}]

ServerPaths == {"principals", "userKrl", "userCa", "sshdConf"}
ClientPaths == {"hostKrl", "knownHosts", "sshConf"}
Path == Range(PathOrder)
Krl  == {"userKrl", "hostKrl"} \cap Path

KeysFor(k) == IF k = "userKrl" THEN UserKey ELSE HostKey

\* A revocation list, compiled or still as the keys to compile.
KeyList == [keys : SUBSET (UserKey \union HostKey)]

Content == Edition \union {Absent, Damaged, Roots} \union KeyList

Sshd == [conf : Content, cert : 0 .. Life]

ASSUME HostSshAssumption ==
  /\ Ops \subseteq {"apply", "enroll", "renew"}
  /\ Policies \subseteq Policy /\ FirstPolicies \subseteq Policies
  /\ Edition # {}
  /\ PathOrder \in Seq(ServerPaths \union ClientPaths)
  /\ {"userKrl", "sshdConf"} \subseteq Range(PathOrder)
  /\ Life \in Nat \ {0} /\ Due \in 0 .. Life - 1
  /\ Faults \subseteq {"fail", "kill", "damage"}
  /\ MaxFaults \in Nat /\ MaxChanges \in Nat
  /\ None \notin Run
  /\ Absent \notin Edition \union {Damaged, Roots} \union KeyList
  /\ Damaged \notin Edition \union {Roots} \union KeyList

PathsOf(role) == (IF "server" \in role THEN ServerPaths ELSE {})
                   \union (IF "client" \in role THEN ClientPaths ELSE {})

\* The files rendered for a policy; a KRL is still the list of its keys.
Rendered(p) == [f \in Path |->
  IF f \notin PathsOf(p.role) THEN Absent
  ELSE IF f \in Krl THEN [keys |-> p.revoked \cap KeysFor(f)]
  ELSE IF f = "userCa" THEN Roots
  ELSE p.edition]

NoFiles == [f \in Path |-> Absent]

ValidKrl(c) == c \notin {Absent, Damaged}

\* Mutant: the KRL is always built from the ledger that the run has loaded.
RebuildKrls(desired) == desired

\* A valid installed KRL is extended, any other is built from the ledger alone.
CompileKrls(desired) == [f \in Path |->
  IF f \in Krl /\ desired[f] # Absent /\ ValidKrl(files[f])
  THEN [keys |-> files[f].keys \union desired[f].keys]
  ELSE desired[f]]

\* Mutant: files that the policy no longer asks for stay.
ChangesOfDesired(desired) == {f \in Path : desired[f] # Absent /\ files[f] # desired[f]}

Changes(desired) == {f \in Path : files[f] # desired[f]}

First(S) == PathOrder[CHOOSE i \in DOMAIN PathOrder :
              /\ PathOrder[i] \in S
              /\ \A j \in DOMAIN PathOrder : PathOrder[j] \in S => i <= j]

\* Mutant: only for a host that is a server now.
ReloadServerByRole(p, before) == "server" \in p.role

\* sshd is validated and reloaded for a server, and for a host that was one.
ReloadServer(p, before) == "server" \in p.role \/ before["sshdConf"] # Absent

-----------------------------------------------------------------------------
Init ==
  /\ policy \in FirstPolicies
  /\ files = NoFiles
  /\ cert = 0
  /\ sshd = [conf |-> Absent, cert |-> 0]
  /\ applyLock = None
  /\ renewLock = None
  /\ pc = [r \in Run |-> "idle"]
  /\ op = [r \in Run |-> None]
  /\ seen = [r \in Run |-> None]
  /\ want = NoFiles
  /\ previous = NoFiles
  /\ left = {}
  /\ distributed = [k \in Krl |-> {}]
  /\ applied = NoRole
  /\ mixed = FALSE
  /\ stale = FALSE
  /\ faults = 0
  /\ changes = 0

Goto(r, label) == pc' = [pc EXCEPT ![r] = label]

\* Mutant: locks that are files outlive the process that made them.
LeaveKeepingLocks(r) ==
  /\ Goto(r, "idle")
  /\ op' = [op EXCEPT ![r] = None]
  /\ seen' = [seen EXCEPT ![r] = None]
  /\ UNCHANGED <<lockVars, txnVars>>

\* The end of a run, by any path: its locks go with its process.
Leave(r) ==
  /\ Goto(r, "idle")
  /\ op' = [op EXCEPT ![r] = None]
  /\ seen' = [seen EXCEPT ![r] = None]
  /\ applyLock' = IF applyLock = r THEN None ELSE applyLock
  /\ renewLock' = IF renewLock = r THEN None ELSE renewLock
  /\ want' = IF applyLock = r THEN NoFiles ELSE want
  /\ previous' = IF applyLock = r THEN NoFiles ELSE previous
  /\ left' = IF applyLock = r THEN {} ELSE left

\* A fault of one of the admitted kinds, within the bound.
Fault(kind) ==
  /\ kind \in Faults
  /\ faults < MaxFaults
  /\ faults' = faults + 1
  /\ UNCHANGED changes

-----------------------------------------------------------------------------
(***************************************************************************)
(* ssh apply, also as a part of ssh enroll host.                           *)
(***************************************************************************)

\* A command loads the site policy first; apply then fetches the CA's public
\* keys and renders its files, and only after that asks for the lock.
Start(r, o) ==
  /\ pc[r] = "idle"
  /\ op' = [op EXCEPT ![r] = o]
  /\ seen' = [seen EXCEPT ![r] = policy]
  /\ Goto(r, IF o = "apply" THEN "await" ELSE "issue")
  /\ UNCHANGED <<policy, fileVars, lockVars, txnVars, histVars, counts>>

\* The policy is in place: an enrollment goes on to prove that renewal works.
Complete(r, desired) ==
  /\ distributed' = [k \in Krl |-> IF ValidKrl(desired[k]) THEN desired[k].keys ELSE {}]
  /\ applied' = seen[r]
  /\ mixed' = FALSE
  /\ IF op[r] = "apply"
     THEN Leave(r)
     ELSE /\ Goto(r, "issue")
          /\ op' = [op EXCEPT ![r] = "prove"]
          /\ applyLock' = None
          /\ want' = NoFiles
          /\ previous' = NoFiles
          /\ left' = {}
          /\ UNCHANGED <<seen, renewLock>>

\* Under the lock: the KRLs are compiled and compared with everything installed.
\* An apply that finds no change stops here; an enrollment still validates.
Acquire(r) ==
  LET desired == CompileKrls(Rendered(seen[r])) IN
  /\ pc[r] = "await"
  /\ applyLock = None
  /\ IF Changes(desired) = {} /\ op[r] = "apply"
     THEN Complete(r, desired) /\ UNCHANGED stale
     ELSE /\ applyLock' = r
          /\ want' = desired
          /\ previous' = files
          /\ left' = Changes(desired)
          /\ Goto(r, IF Changes(desired) = {} THEN "validate" ELSE "write")
          /\ UNCHANGED <<renewLock, op, seen, histVars>>
  /\ UNCHANGED <<policy, fileVars, counts>>

\* One file is replaced or removed, in the order of the paths.
Write(r) ==
  LET f == First(left) IN
  /\ pc[r] = "write"
  /\ files' = [files EXCEPT ![f] = want[f]]
  /\ left' = left \ {f}
  /\ Goto(r, IF left = {f} THEN "validate" ELSE "write")
  /\ distributed' = [k \in Krl |-> IF k = f /\ want[f] = Absent THEN {} ELSE distributed[k]]
  /\ UNCHANGED <<policy, cert, sshd, lockVars, op, seen, want, previous, applied, mixed, stale, counts>>

\* The KRLs in place are queried and the configurations tested.
KrlsInPlace(p) ==
  /\ ReloadServer(p, previous) /\ files["sshdConf"] # Absent => ValidKrl(files["userKrl"])
  /\ "client" \in p.role /\ {"sshConf", "hostKrl"} \subseteq Path /\ files["sshConf"] # Absent
       => ValidKrl(files["hostKrl"])

\* sshd reads the fragment and the host certificate as they are now.
ReloadSsh == sshd' = [conf |-> files["sshdConf"], cert |-> cert] /\ stale' = FALSE

ValidateAndReload(r) ==
  /\ pc[r] = "validate"
  /\ KrlsInPlace(seen[r])
  /\ IF ReloadServer(seen[r], previous) THEN ReloadSsh ELSE UNCHANGED <<sshd, stale>>
  /\ Complete(r, want)
  /\ UNCHANGED <<policy, files, cert, counts>>

Changed == {f \in Path : want[f] # previous[f]}

\* A failed write, validation or reload sends the run back over what it changed;
\* where nothing was changed there is nothing to restore and the run just fails.
ApplyFails(r) ==
  /\ pc[r] \in {"write", "validate"}
  /\ \/ Fault("fail")
     \/ pc[r] = "validate" /\ ~ KrlsInPlace(seen[r]) /\ UNCHANGED counts
  /\ IF Changed = {}
     THEN Leave(r) /\ stale' = TRUE
     ELSE /\ Goto(r, "restore")
          /\ left' = Changed
          /\ UNCHANGED <<lockVars, op, seen, want, previous, stale>>
  /\ UNCHANGED <<policy, fileVars, distributed, applied, mixed>>

\* Mutant: files that the failed apply created stay.
RestoreOverwritten(r) ==
  LET f == First(left) IN
  /\ pc[r] = "restore"
  /\ files' = [files EXCEPT ![f] = IF previous[f] = Absent THEN @ ELSE previous[f]]
  /\ IF left # {f}
     THEN left' = left \ {f} /\ UNCHANGED <<lockVars, runVars, want, previous>>
     ELSE IF ReloadServer(seen[r], previous)
     THEN Goto(r, "rereload") /\ left' = {} /\ UNCHANGED <<lockVars, op, seen, want, previous>>
     ELSE Leave(r)
  /\ UNCHANGED <<policy, cert, sshd, histVars, counts>>

\* Restoring goes through the same paths in the same order, then reloads.
Restore(r) ==
  LET f == First(left) IN
  /\ pc[r] = "restore"
  /\ files' = [files EXCEPT ![f] = previous[f]]
  /\ IF left # {f}
     THEN left' = left \ {f} /\ UNCHANGED <<lockVars, runVars, want, previous>>
     ELSE IF ReloadServer(seen[r], previous)
     THEN Goto(r, "rereload") /\ left' = {} /\ UNCHANGED <<lockVars, op, seen, want, previous>>
     ELSE Leave(r)
  /\ UNCHANGED <<policy, cert, sshd, histVars, counts>>

RestoreReload(r) ==
  /\ pc[r] = "rereload"
  /\ ReloadSsh
  /\ Leave(r)
  /\ UNCHANGED <<policy, files, cert, distributed, applied, mixed, counts>>

\* "rollback failed", as when the first fault persists: the run reports it and
\* leaves things as they are.
RestoreFails(r) ==
  /\ pc[r] \in {"restore", "rereload"}
  /\ stale' = TRUE
  /\ mixed' = (mixed \/ pc[r] = "restore")
  /\ Leave(r)
  /\ UNCHANGED <<policy, fileVars, distributed, applied, counts>>

-----------------------------------------------------------------------------
(***************************************************************************)
(* The host certificate: ssh renew host, and ssh enroll host which first   *)
(* uses its grant and at the end proves the renewal, without the lock.     *)
(***************************************************************************)

NeedsRenewal == cert <= Due

\* A renewal that finds another one running leaves it to that one, and one that
\* finds nothing due is done.
StartRenewal(r) ==
  /\ pc[r] = "idle"
  /\ renewLock = None
  /\ NeedsRenewal
  /\ renewLock' = r
  /\ op' = [op EXCEPT ![r] = "renew"]
  /\ Goto(r, "issue")
  /\ UNCHANGED <<policy, fileVars, applyLock, seen, txnVars, histVars, counts>>

\* step writes the new certificate over the old one.
Issue(r) ==
  /\ pc[r] = "issue"
  /\ cert' = Life
  /\ Goto(r, "load")
  /\ UNCHANGED <<policy, files, sshd, lockVars, op, seen, txnVars, histVars, counts>>

\* Mutant: only an enrollment reloads sshd.
LoadEnrolled(r) ==
  /\ pc[r] = "load"
  /\ IF op[r] = "enroll"
     THEN ReloadSsh /\ Goto(r, "await") /\ UNCHANGED <<lockVars, op, seen, txnVars>>
     ELSE Leave(r) /\ UNCHANGED <<sshd, stale>>
  /\ UNCHANGED <<policy, files, cert, distributed, applied, mixed, counts>>

\* The certificate is listed, the configuration tested and sshd reloaded.
Load(r) ==
  /\ pc[r] = "load"
  /\ ReloadSsh
  /\ IF op[r] = "enroll"
     THEN Goto(r, "await") /\ UNCHANGED <<lockVars, op, seen, txnVars>>
     ELSE Leave(r)
  /\ UNCHANGED <<policy, files, cert, distributed, applied, mixed, counts>>

\* A failure before anything is written (no CA, no answer, ssh-keygen), and
\* one between the new certificate and its reload.
CommandFails(r) ==
  /\ pc[r] \in {"await", "issue", "load"}
  /\ Fault("fail")
  /\ stale' = (stale \/ pc[r] = "load")
  /\ Leave(r)
  /\ UNCHANGED <<policy, fileVars, distributed, applied, mixed>>

-----------------------------------------------------------------------------
(***************************************************************************)
(* Kills, time, and what operators do.                                     *)
(***************************************************************************)

Unsettled == {"write", "validate", "restore", "rereload", "load"}

Kill(r) ==
  /\ Fault("kill")
  /\ pc[r] # "idle"
  /\ stale' = (stale \/ pc[r] \in Unsettled)
  /\ mixed' = (mixed \/ pc[r] \in Unsettled \ {"load"})
  /\ Leave(r)
  /\ UNCHANGED <<policy, fileVars, distributed, applied>>

\* A new, or an older, policy is checked out on the host.
Distribute(p) ==
  /\ changes < MaxChanges
  /\ changes' = changes + 1
  /\ p # policy
  /\ policy' = p
  /\ UNCHANGED <<fileVars, lockVars, runVars, txnVars, histVars, faults>>

\* A tick is much longer than the way from a new certificate to its reload.
Age ==
  /\ \A r \in Run : pc[r] # "load"
  /\ cert # 0 \/ sshd.cert # 0
  /\ cert' = IF cert = 0 THEN 0 ELSE cert - 1
  /\ sshd' = [sshd EXCEPT !.cert = IF @ = 0 THEN 0 ELSE @ - 1]
  /\ UNCHANGED <<policy, files, lockVars, runVars, txnVars, histVars, counts>>

\* Between applies somebody damages or removes a managed file.
Damage(f, c) ==
  /\ Fault("damage")
  /\ applyLock = None
  /\ files[f] \notin {Absent, c}
  /\ files' = [files EXCEPT ![f] = c]
  /\ mixed' = TRUE
  /\ stale' = (stale \/ f = "sshdConf")
  /\ distributed' = [k \in Krl |-> IF k = f THEN {} ELSE distributed[k]]
  /\ UNCHANGED <<policy, cert, sshd, lockVars, runVars, txnVars, applied>>

Step(r) ==
  \/ Write(r) \/ ValidateAndReload(r)
  \/ ApplyFails(r) \/ Restore(r) \/ RestoreReload(r) \/ RestoreFails(r)
  \/ Issue(r) \/ Load(r) \/ CommandFails(r)

Next ==
  \/ \E r \in Run : Step(r) \/ Acquire(r) \/ Kill(r)
  \/ \E r \in Run, o \in Ops \ {"renew"} : Start(r, o)
  \/ \E r \in Run : "renew" \in Ops /\ StartRenewal(r)
  \/ \E p \in Policies : Distribute(p)
  \/ \E f \in Path, c \in {Absent, Damaged} : Damage(f, c)
  \/ Age

Spec == Init /\ [][Next]_vars

\* A started command goes on, .apply.lock is handed to some waiter, the timers
\* of apply and renew keep firing and time passes.
Fairness ==
  /\ \A r \in Run : WF_vars(Step(r))
  /\ WF_vars(\E r \in Run : Acquire(r))
  /\ \A r \in Run : SF_vars(Start(r, "apply")) /\ SF_vars(StartRenewal(r))
  /\ WF_vars(Age)

FairSpec == Spec /\ Fairness
=============================================================================
