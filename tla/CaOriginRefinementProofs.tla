---------------------- MODULE CaOriginRefinementProofs ----------------------
(***************************************************************************)
(* The proof that the CA-origin transactions implement EnrollmentAuthority *)
(* for any number of operators, identities, keys and commands.  A step of  *)
(* the origin is a reservation when an approval reserves, a Serve when the *)
(* running step-ca changes, a retirement when a revocation commits, and a  *)
(* stutter otherwise.  Nothing of the transaction is visible: that only    *)
(* known enrollments are served follows from RegisteredInv, that no        *)
(* retired one is from RetiredInv, and that a retirement cuts nothing off  *)
(* at that moment from RevocationInv.                                      *)
(***************************************************************************)
EXTENDS CaOriginRefinement, CaOriginProofs

\* The invariant of the origin that the steps of the refinement rest on.
OriginInv ==
  TypeOK /\ RegistryInv /\ RevocationInv /\ TransactionInv /\ RetiredInv /\ RegisteredInv

\* What step-ca lets renew is an enrollment that is known and not retired.
ServesKnown == \A i \in Id : Served(i) \in Authority!Servable(i)

LEMMA RegisteredServesKnown ==
  ASSUME Restores \subseteq {"ledger"}
  PROVE  OriginInv => ServesKnown
<1> SUFFICES ASSUME OriginInv, NEW i \in Id
             PROVE  Served(i) \in {e \in Known \ retired : e.id = i} \union {NoProv}
  BY DEF ServesKnown, Authority!Servable
<1> USE CaOriginAssumption DEF OriginInv
<1>0. CASE running = Down
  BY <1>0 DEF Served
<1>1. CASE running.prov[i] = NoProv
  BY <1>1 DEF Served
<1>2. CASE running # Down /\ running.prov[i] # NoProv
  <2>1. running \in Configurations
    BY <1>2 DEF TypeOK, Configurations
  <2>2. PICK e \in LiveCandidates : e.id = i /\ running.prov[i] = Pinned(e)
    BY <1>2, <2>1 DEF RegisteredInv, Undisturbed, Registered
  <2>3. PICK r \in registry : r.status # "Revoked" /\ e = AsCandidate(r)
    BY DEF LiveCandidates, CandidatesOf, Live
  <2>4. Served(i) = e
    <3>1. Served(i) = [id |-> i, key |-> Pinned(e).key, ren |-> Pinned(e).ren]
      BY <1>2, <2>2 DEF Served
    <3>2. e = [id |-> e.id, key |-> e.key, ren |-> e.ren]
      BY <2>3 DEF AsCandidate
    <3> QED
      BY <2>2, <3>1, <3>2 DEF Pinned
  <2>5. e \in Known
    BY <2>3 DEF Known
  <2>6. e \notin retired
    <3> SUFFICES ASSUME e \in retired PROVE FALSE
      OBVIOUS
    <3>1. AsRecord(e, "Revoked") \in registry
      BY DEF RetiredInv
    <3>2. AsRecord(e, "Revoked") # r /\ SharesKey(r, AsRecord(e, "Revoked"))
      BY <2>3 DEF AsRecord, AsCandidate, SharesKey
    <3> QED
      BY <2>3, <3>1, <3>2 DEF RegistryInv, Validate
  <2> QED
    BY <2>2, <2>4, <2>5, <2>6
<1> QED
  BY <1>0, <1>1, <1>2

\* What holds at every reachable state of a fresh site.
THEOREM OriginInvariant ==
  ASSUME FreshSite, Restores \subseteq {"ledger"}
  PROVE  Spec => [](OriginInv /\ ServesKnown)
  BY TypeInit, TypeNext, RegistryInvInit, RegistryInvNext, RevocationInvInit, RevocationInvNext,
     TransactionInvInit, TransactionInvNext, RetiredInvInit, RetiredInvNext,
     RegisteredInvInit, RegisteredInvNext, RegisteredServesKnown, PTL DEF Spec, OriginInv

\* The enrollment that an enrolling command commits was known before.
LEMMA CommittedWasKnown ==
  ASSUME TypeOK, TransactionInv, RegisteredInv, Restores \subseteq {"ledger"},
         pc = "commit", cmd[holder].op \in {"approve", "import"}
  PROVE  cmd[holder].req \in CandidatesOf(registry)
<1> DEFINE c == cmd[holder].req
<1> USE CaOriginAssumption
<1>1. holder # None /\ cmd[holder] \in Command /\ next \in Config
  BY DEF TypeOK
<1>2. c \in Candidate /\ next.prov[c.id] = Pinned(c) /\ next \in Configurations
  BY <1>1, CommandFields DEF TransactionInv, Enrolling, Proposed, Configurations
<1>3. Pinned(c) # NoProv
  <2>1. Pinned(c) \in Prov
    BY <1>2 DEF Pinned, Prov, Candidate, Ssh
  <2> QED
    BY <2>1
<1>4. PICK e \in LiveCandidates : e.id = c.id /\ Pinned(c) = Pinned(e)
  BY <1>2, <1>3 DEF RegisteredInv, Undisturbed, Registered, Candidate
<1>5. e \in CandidatesOf(registry) /\ e \in Candidate
  BY CandidateFields DEF LiveCandidates, CandidatesOf, Live, TypeOK
<1>6. e = c
  <2>1. e.key = c.key /\ e.ren = c.ren
    BY <1>4 DEF Pinned
  <2> QED
    BY <1>2, <1>4, <1>5, <2>1 DEF Candidate
<1> QED
  BY <1>5, <1>6

\* A step that leaves what is known, served and retired alone is a stutter.
Invisible == UNCHANGED <<Known, running, retired>>

\* A step that may change what step-ca runs, and no store of enrollments.
Restarted == UNCHANGED <<registry, retired>>

LEMMA InvisibleStutters ==
  ASSUME Invisible
  PROVE  UNCHANGED Authority!vars
  BY DEF Invisible, Authority!vars, Served

LEMMA RestartServes ==
  ASSUME ServesKnown', Restarted
  PROVE  Authority!Serve
<1>1. Known' = Known /\ retired' = retired
  BY DEF Restarted, Known
<1>2. \A i \in Id : Served(i)' \in Authority!Servable(i)
  BY <1>1 DEF ServesKnown, Authority!Servable
<1> QED
  BY <1>1, <1>2 DEF Authority!Serve, Authority!Servable

\* The empty registry of a fresh site is the authority's initial state.
LEMMA RefinementInit ==
  ASSUME FreshSite
  PROVE  Init => Authority!Init
<1> SUFFICES ASSUME Init PROVE Authority!Init
  OBVIOUS
<1>1. Known = {} /\ retired = {}
  BY DEF Init, Known
<1>2. \A i \in Id : Served(i) = NoProv
  BY DEF Init, FreshSite, Served
<1> QED
  BY <1>1, <1>2 DEF Authority!Init

\* An approval reserves an enrollment whose keys are new, or one it knows already.
LEMMA ApproveReserves ==
  ASSUME OriginInv, NEW p \in Proc, Approve(p)
  PROVE  (\E e \in Authority!Enrollment : Authority!Reserve(e)) \/ Invisible
<1> DEFINE c == cmd[p].req
<1>1. c \in Candidate /\ registry \in SUBSET Record /\ UNCHANGED <<running, retired>>
  BY CommandFields, CaOriginAssumption DEF OriginInv, TypeOK, Approve, AtBegin, At, caVars
<1>2. CASE registry' = registry
  BY <1>1, <1>2 DEF Invisible, Known
<1>3. CASE Reservable(c) /\ registry' = Reserve(registry, c)
  <2>1. /\ Known' = Known \union {c}
        /\ c \in Known \/ \A e \in Known : ~SharesKey(e, c)
    BY <1>1, <1>3, ReserveCandidates DEF Reservable, Known, CandidatesOf
  <2>2. CASE c \in Known
    BY <1>1, <2>1, <2>2 DEF Invisible
  <2>3. CASE \A e \in Known : ~SharesKey(e, c)
    <3>1. [i \in Id |-> Served(i)]' = [i \in Id |-> Served(i)]
      BY <1>1 DEF Served
    <3>2. c \in Authority!Enrollment
      BY <1>1 DEF Authority!Enrollment, Candidate
    <3> QED
      BY <1>1, <2>1, <2>3, <3>1, <3>2 DEF Authority!Reserve, SharesKey
  <2> QED
    BY <2>1, <2>2, <2>3
<1> QED
  BY <1>2, <1>3 DEF Approve

\* The commit of a revocation retires its scope, which step-ca no longer serves; no other
\* commit is visible.
LEMMA CommitRetires ==
  ASSUME OriginInv, Restores \subseteq {"ledger"}, NEW p \in Proc, Commit(p)
  PROVE  (\E scope \in SUBSET Id : Authority!Retire(scope)) \/ Invisible
<1> DEFINE c == cmd[p]
<1> USE CaOriginAssumption
<1>1. /\ holder = p /\ pc = "commit" /\ c \in Command
      /\ registry' = CommittedRegistry(c) /\ retired' = retired \union NewlyRetired(c)
      /\ UNCHANGED <<disk, running>>
  BY DEF OriginInv, TypeOK, Commit, At, caVars
<1>2. CASE c.op \in {"approve", "import"}
  <2>1. Known' = Known
    BY <1>1, <1>2, CommittedCandidates, CommittedWasKnown DEF OriginInv, Known, CandidatesOf
  <2>2. NewlyRetired(c) = {}
    BY <1>2 DEF NewlyRetired
  <2> QED
    BY <1>1, <2>1, <2>2 DEF Invisible
<1>3. CASE c.op = "revoke"
  <2> DEFINE scope == c.scope
  <2>1. Known' = Known /\ scope \in SUBSET Id
    BY <1>1, <1>3, CommittedCandidates, CommandFields DEF OriginInv, Known, CandidatesOf
  <2>2. NewlyRetired(c) = {e \in Known : e.id \in scope}
    BY <1>3, CandidateFields DEF NewlyRetired, Selected, Known
  <2>3. \A i \in scope : next.prov[i] = NoProv /\ running \in {next, Down}
    BY <1>1, <1>3 DEF OriginInv, RevocationInv, Revoking
  <2>4. \A i \in Id : Served(i)' = Served(i) /\ (i \in scope => Served(i) = NoProv)
    BY <1>1, <2>3 DEF Served
  <2>5. Authority!Retire(scope)
    BY <1>1, <2>1, <2>2, <2>4 DEF Authority!Retire
  <2> QED
    BY <2>1, <2>5
<1>4. CASE c.op = "apply"
  BY <1>1, <1>4, CommittedCandidates DEF OriginInv, NewlyRetired, Invisible, Known
<1> QED
  BY <1>1, <1>2, <1>3, <1>4, CommandFields

\* A save that fails after the rename registers nothing that was not known.
LEMMA FailedCommitInvisible ==
  ASSUME OriginInv, Restores \subseteq {"ledger"}, NEW p \in Proc, CommitFails(p)
  PROVE  Invisible
<1>1. holder = p /\ pc = "commit" /\ UNCHANGED <<running, retired>>
  BY DEF CommitFails, At, caVars
<1>2. CASE registry' = registry
  BY <1>1, <1>2 DEF Invisible, Known
<1>3. CASE registry' = CommittedRegistry(cmd[p]) /\ cmd[p].op \in {"approve", "import"}
  BY <1>1, <1>3, CommittedCandidates, CommittedWasKnown DEF OriginInv, Invisible, Known, CandidatesOf
<1> QED
  BY <1>2, <1>3 DEF CommitFails

\* Every step of the origin is a step of the authority or a stutter.
LEMMA RefinementNext ==
  ASSUME OriginInv, ServesKnown', Restores \subseteq {"ledger"}, [Next]_vars
  PROVE  [Authority!Next]_(Authority!vars)
<1>1. ASSUME NEW p \in Proc, Approve(p)
      PROVE  [Authority!Next]_(Authority!vars)
  BY <1>1, ApproveReserves, InvisibleStutters DEF Authority!Next
<1>2. ASSUME NEW p \in Proc, Commit(p)
      PROVE  [Authority!Next]_(Authority!vars)
  BY <1>2, CommitRetires, InvisibleStutters DEF Authority!Next
<1>3. ASSUME NEW p \in Proc, CommitFails(p)
      PROVE  [Authority!Next]_(Authority!vars)
  BY <1>3, FailedCommitInvisible, InvisibleStutters
<1>4. ASSUME NEW p \in Proc,
             \/ Lock(p) \/ Import(p) \/ Revoke(p) \/ ApplyCa(p)
             \/ InstallCaJson(p) \/ InstallFails(p) \/ InstallFailsLate(p) \/ RestartCa(p) \/ RestartFails(p)
             \/ Rollback(p) \/ RollbackFails(p) \/ RollbackRestart(p)
             \/ Kill(p) \/ \E c \in Command : LoadModel(p, c)
      PROVE  [Authority!Next]_(Authority!vars)
  <2>1. Restarted
    BY <1>4 DEF Restarted, Lock, Import, Revoke, ApplyCa, InstallCaJson, InstallFails, InstallFailsLate,
       RestartCa, RestartFails, Rollback, RollbackFails, RollbackRestart, Kill, LoadModel
  <2> QED
    BY <2>1, RestartServes DEF Authority!Next
<1>5. CASE StepCaRestarts \/ (\E g \in grants : GrantEnds(g)) \/ EditPolicy \/ BackupRegistry \/ UNCHANGED vars
  <2>1. Restarted
    BY <1>5 DEF Restarted, StepCaRestarts, GrantEnds, EditPolicy, BackupRegistry, vars
  <2> QED
    BY <2>1, RestartServes DEF Authority!Next
<1>6. CASE Restore
  <2>1. Restarted
    BY <1>6 DEF Restarted, Restore, RestoreRegistry, RevertLedger, RestoreCaJson, MayRestore
  <2> QED
    BY <2>1, RestartServes DEF Authority!Next
<1> QED
  BY <1>1, <1>2, <1>3, <1>4, <1>5, <1>6 DEF Next, Transaction

\* The CA-origin transactions implement the abstract authority.
THEOREM OriginImplementsAuthority ==
  ASSUME FreshSite, Restores \subseteq {"ledger"}
  PROVE  Spec => ImplementsAuthority
<1>1. Init => Authority!Init
  BY RefinementInit
<1>2. OriginInv /\ ServesKnown' /\ [Next]_vars => [Authority!Next]_(Authority!vars)
  BY RefinementNext
<1> QED
  BY <1>1, <1>2, OriginInvariant, PTL DEF Spec, ImplementsAuthority, Authority!Spec
=============================================================================
