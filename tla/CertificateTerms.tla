-------------------------- MODULE CertificateTerms --------------------------
(***************************************************************************)
(* How long SSH certificates last: the durations of the reviewed policy,   *)
(* the claims of ca.json that `approve` and `apply ca` derive from them,   *)
(* and what grants and renewals then ask of step-ca.  Three copies of the  *)
(* policy are in play: the reviewed one (committed), the CA's checkout and *)
(* each client's checkout; each operation works from the copy it loaded    *)
(* when it began.                                                          *)
(*                                                                         *)
(* A duration is a number of minutes ("m") or of hours ("h").  An hour is  *)
(* Hour minutes and MaxDuration minutes stand for the range of             *)
(* time.Duration, so that the code's boundary cases keep their shape.      *)
(* Grants, locks and registry records are those of CaOrigin; an operation  *)
(* is here its load (Start) and its commit under the CA lock (Finish).     *)
(***************************************************************************)
EXTENDS Integers, FiniteSets

CONSTANTS
  User,         \* the user rows of the policy
  Host,         \* its hosts
  Client,       \* the identities that enroll: a user on one machine, or a host
  Operator,     \* processes on the CA origin
  Hour,         \* minutes in an hour
  MaxDuration,  \* the longest representable duration, in minutes
  Policies,     \* the policies a review may commit, acceptable or not, by name
  First,        \* the one the site was set up with
  CertTtls,     \* values an operator may give to --cert-ttl
  MaxEdits      \* bound: number of commits to the policy

ASSUME TermsAssumption ==
  /\ User \cap Host = {} /\ Client \subseteq User \cup Host
  /\ Hour \in Nat \ {0} /\ MaxDuration \in Nat /\ MaxDuration >= Hour
  /\ MaxEdits \in Nat

VARIABLES
  committed,  \* the reviewed policy
  caPolicy,   \* the CA's checkout of it
  clientPolicy, \* each client's checkout
  edits,      \* number of commits
  op,         \* what each process on the CA origin is doing
  enrollment, \* ca.json: the claims of the two enrollment provisioners
  renewal,    \* ca.json: the claims of each device-bound renewal provisioner
  grant       \* the approved, not yet redeemed grant of each client

vars == <<committed, caPolicy, clientPolicy, edits, op, enrollment, renewal,
          grant>>

Role == {"user_enrollment", "host_bootstrap"}
RoleOf(c) == IF c \in User THEN "user_enrollment" ELSE "host_bootstrap"

-----------------------------------------------------------------------------
(* Durations *)

Unlimited == [n |-> 0, unit |-> "unlimited"]
Absent == [n |-> 0, unit |-> "absent"]
Duration == [n : Nat, unit : {"m", "h"}]

Minutes(d) == IF d.unit = "h" THEN d.n * Hour ELSE d.n

\* What the parser accepts: a positive number of a known unit, in range.
Parses(d) == /\ d \in Duration
             /\ d.n > 0
             /\ Minutes(d) <= MaxDuration

AtMost(d, e) == Parses(d) /\ Parses(e) /\ Minutes(d) <= Minutes(e)

\* The largest whole-hour duration stands for an unlimited one.
EffectivelyUnlimited == [n |-> MaxDuration \div Hour, unit |-> "h"]
\* Mutant: the sentinel reaches ca.json as it is.
StepMaxVerbatim(d) == d
StepMax(d) == IF d = Unlimited THEN EffectivelyUnlimited ELSE d

-----------------------------------------------------------------------------
(* The policy: the TTLs of each enrollment provisioner, each user's row with *)
(* its status (active), and the status of the row of its client (enrolls)    *)

Ttls(p, r) == Policies[p].roles[r]
Row(p, u) == Policies[p].users[u]

RenewalDefault(p, r) == IF Ttls(p, r).renewalDefault # Absent
                          THEN Ttls(p, r).renewalDefault
                          ELSE Ttls(p, r).default

\* To enroll and to renew, a user and the row of its client must be active.
Enrollable(p, c) == c \in User => Row(p, c).active /\ Row(p, c).enrolls

\* Mutant: rows of users no longer active count too.
CandidatesAll(p, r) ==
  {RenewalDefault(p, r)} \cup {Row(p, u).certTtl : u \in {u \in User : r = RoleOf(u)}}

\* The lifetimes an unlimited enrollment provisioner is taken to renew with.
Candidates(p, r) ==
  {RenewalDefault(p, r)}
    \cup {Row(p, u).certTtl : u \in {u \in User : r = RoleOf(u) /\ Row(p, u).active}}

Counted(d) == IF Parses(d) THEN Minutes(d) ELSE 0

InferredRenewalMax(p, r) ==
  IF Ttls(p, r).max # Unlimited
    THEN Ttls(p, r).max
    ELSE CHOOSE d \in Candidates(p, r) :
           \A e \in Candidates(p, r) : Counted(e) <= Counted(d)

RenewalMax(p, r) == IF Ttls(p, r).renewalMax # Absent
                      THEN Ttls(p, r).renewalMax
                      ELSE InferredRenewalMax(p, r)

\* Mutant: users' lifetimes are not held against the renewal maximum.
ValidRolesOnly(p) ==
  \A r \in Role :
    /\ Parses(Ttls(p, r).default)
    /\ Ttls(p, r).max = Unlimited => r = "user_enrollment"
    /\ AtMost(RenewalDefault(p, r), RenewalMax(p, r))

\* Policy::validate, as far as it concerns durations: every command that
\* loads a policy refuses one that fails it.
Valid(p) ==
  /\ \A u \in User : Parses(Row(p, u).certTtl)
  /\ \A r \in Role :
       /\ Parses(Ttls(p, r).default)
       /\ IF Ttls(p, r).max = Unlimited THEN r = "user_enrollment"
                                        ELSE Parses(Ttls(p, r).max)
       /\ Ttls(p, r).renewalDefault # Absent => Parses(Ttls(p, r).renewalDefault)
       /\ Ttls(p, r).renewalMax # Absent => Parses(Ttls(p, r).renewalMax)
       /\ AtMost(RenewalDefault(p, r), RenewalMax(p, r))
  /\ \A u \in User :
       Row(p, u).active => AtMost(Row(p, u).certTtl, RenewalMax(p, RoleOf(u)))

Accepted == {p \in DOMAIN Policies : Valid(p)}

ASSUME SetUpAssumption == First \in Accepted

\* The claims written into ca.json: the enrollment provisioner's, and those
\* of the renewal provisioners of its role.
Claims(p, r) == [default |-> Ttls(p, r).default, max |-> StepMax(Ttls(p, r).max)]
RenewalClaims(p, r) == [default |-> RenewalDefault(p, r),
                        max     |-> StepMax(RenewalMax(p, r))]

-----------------------------------------------------------------------------
(* The operators' side *)

Idle == [kind |-> "idle"]
NoClaims == [default |-> Absent, max |-> Absent]
NoGrant == [ttl |-> Absent, infinite |-> FALSE]

Edit ==
  /\ edits < MaxEdits
  /\ committed' \in DOMAIN Policies \ {committed}
  /\ edits' = edits + 1
  /\ UNCHANGED <<caPolicy, clientPolicy, op, enrollment, renewal, grant>>

PullCa ==
  /\ caPolicy # committed
  /\ caPolicy' = committed
  /\ UNCHANGED <<committed, clientPolicy, edits, op, enrollment, renewal, grant>>

PullClient(c) ==
  /\ clientPolicy[c] # committed
  /\ clientPolicy' = [clientPolicy EXCEPT ![c] = committed]
  /\ UNCHANGED <<committed, caPolicy, edits, op, enrollment, renewal, grant>>

\* The lifetime an approval settles on, from the policy it loaded.
Approvable(p, c, ttl, infinite) ==
  /\ Enrollable(p, c)
  /\ \/ /\ infinite
        /\ c \in User
        /\ Row(p, c).allowInfinite
        /\ Ttls(p, RoleOf(c)).max = Unlimited
        /\ ttl = EffectivelyUnlimited
     \/ /\ ~infinite
        /\ ttl \in CertTtls \cup {IF c \in User THEN Row(p, c).certTtl
                                                ELSE Ttls(p, RoleOf(c)).default}
        /\ Parses(ttl)
        /\ c \in User => AtMost(ttl, RenewalMax(p, RoleOf(c)))

\* The operator confirms the request after this and before the lock.
StartApprove(o, c) ==
  /\ op[o] = Idle
  /\ caPolicy \in Accepted
  /\ \E infinite \in BOOLEAN :
     \E ttl \in CertTtls \cup {EffectivelyUnlimited, Ttls(caPolicy, RoleOf(c)).default}
                  \cup {Row(caPolicy, u).certTtl : u \in User} :
       /\ Approvable(caPolicy, c, ttl, infinite)
       /\ op' = [op EXCEPT ![o] = [kind |-> "approve", policy |-> caPolicy,
                                   client |-> c, ttl |-> ttl,
                                   infinite |-> infinite]]
  /\ UNCHANGED <<committed, caPolicy, clientPolicy, edits, enrollment, renewal, grant>>

\* One approval sets the claims of its own two provisioners.
FinishApprove(o) ==
  /\ op[o].kind = "approve"
  /\ LET c == op[o].client  p == op[o].policy  r == RoleOf(c) IN
       /\ enrollment' = [enrollment EXCEPT ![r] = Claims(p, r)]
       /\ renewal' = [renewal EXCEPT ![c] = RenewalClaims(p, r)]
       /\ grant' = [grant EXCEPT ![c] = [ttl |-> op[o].ttl,
                                         infinite |-> op[o].infinite]]
  /\ op' = [op EXCEPT ![o] = Idle]
  /\ UNCHANGED <<committed, caPolicy, clientPolicy, edits>>

StartApply(o) ==
  /\ op[o] = Idle
  /\ caPolicy \in Accepted
  /\ op' = [op EXCEPT ![o] = [kind |-> "apply", policy |-> caPolicy]]
  /\ UNCHANGED <<committed, caPolicy, clientPolicy, edits, enrollment, renewal, grant>>

\* Mutant: only the provisioners the policy itself names are reconciled.
FinishApplyNamed(o) ==
  /\ op[o].kind = "apply"
  /\ enrollment' = [r \in Role |-> Claims(op[o].policy, r)]
  /\ op' = [op EXCEPT ![o] = Idle]
  /\ UNCHANGED <<committed, caPolicy, clientPolicy, edits, renewal, grant>>

\* apply ca sets the claims of every live provisioner.
FinishApply(o) ==
  /\ op[o].kind = "apply"
  /\ LET p == op[o].policy IN
       /\ enrollment' = [r \in Role |-> Claims(p, r)]
       /\ renewal' = [c \in Client |->
                        IF renewal[c] = NoClaims THEN NoClaims
                                                 ELSE RenewalClaims(p, RoleOf(c))]
  /\ op' = [op EXCEPT ![o] = Idle]
  /\ UNCHANGED <<committed, caPolicy, clientPolicy, edits, grant>>

\* Declined at the prompt, killed, or rolled back: CaOrigin has the details.
Abandon(o) ==
  /\ op[o] # Idle
  /\ op' = [op EXCEPT ![o] = Idle]
  /\ UNCHANGED <<committed, caPolicy, clientPolicy, edits, enrollment, renewal, grant>>

-----------------------------------------------------------------------------
(* The client's side *)

\* step-ca signs a request its provisioner's claims leave room for.
Signs(claims, ttl) == AtMost(ttl, claims.max)

\* The first certificate, on an approved grant.
Redeem(c) ==
  /\ clientPolicy[c] \in Accepted /\ Enrollable(clientPolicy[c], c)
  /\ grant[c] # NoGrant
  /\ Signs(enrollment[RoleOf(c)], grant[c].ttl)
  /\ grant' = [grant EXCEPT ![c] = NoGrant]
  /\ UNCHANGED <<committed, caPolicy, clientPolicy, edits, op, enrollment,
                 renewal>>

\* What a routine renewal asks for, by the client's own policy.
Asked(p, c) == IF c \in User THEN Row(p, c).certTtl
                             ELSE RenewalDefault(p, RoleOf(c))

\* A renewal asks for that; when step-ca signs it, only the certificate changes.
Renewable(c) ==
  /\ clientPolicy[c] \in Accepted /\ Enrollable(clientPolicy[c], c)
  /\ Signs(renewal[c], Asked(clientPolicy[c], c))

-----------------------------------------------------------------------------
Init ==
  /\ committed = First
  /\ caPolicy = committed
  /\ clientPolicy = [c \in Client |-> committed]
  /\ edits = 0
  /\ op = [o \in Operator |-> Idle]
  /\ enrollment = [r \in Role |-> Claims(committed, r)]
  /\ renewal = [c \in Client |-> NoClaims]
  /\ grant = [c \in Client |-> NoGrant]

Next ==
  \/ Edit
  \/ PullCa
  \/ \E c \in Client : PullClient(c) \/ Redeem(c)
  \/ \E o \in Operator :
       \/ \E c \in Client : StartApprove(o, c)
       \/ FinishApprove(o)
       \/ StartApply(o)
       \/ FinishApply(o)
       \/ Abandon(o)

Spec == Init /\ [][Next]_vars

\* Checkouts are pulled, some operation in flight ends, and operators keep
\* running apply ca, as the documentation tells them to after a policy change,
\* until a run of it completes.
FairSpec ==
  /\ Spec
  /\ WF_vars(PullCa \/ \E c \in Client : PullClient(c))
  /\ WF_vars(\E o \in Operator : FinishApprove(o) \/ FinishApply(o) \/ Abandon(o))
  /\ SF_vars(\E o \in Operator : StartApply(o))
  /\ SF_vars(\E o \in Operator : FinishApply(o))
=============================================================================
