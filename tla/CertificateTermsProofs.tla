----------------------- MODULE CertificateTermsProofs -----------------------
(***************************************************************************)
(* Proofs about the lifetimes of certificates, for any policies under      *)
(* review, any users, hosts and operators, and any length of an hour and   *)
(* range of durations.                                                     *)
(***************************************************************************)
EXTENDS CertificateTermsProperties, TLAPS, WellFoundedInduction

\* The state variables that are functions keep their domains.
Shapes ==
  /\ op = [o \in Operator |-> op[o]]
  /\ enrollment = [r \in Role |-> enrollment[r]]
  /\ renewal = [c \in Client |-> renewal[c]]
  /\ grant = [c \in Client |-> grant[c]]

\* An approval on its way has settled on a lifetime that its policy allows.
Approving ==
  \A o \in Operator :
    op[o].kind = "approve" =>
      /\ op[o].client \in Client
      /\ Approvable(op[o].policy, op[o].client, op[o].ttl, op[o].infinite)

IInv == TypeOK /\ Shapes /\ Approving

-----------------------------------------------------------------------------
(* Durations and what validation makes of them *)

LEMMA RoleOfType == \A c : RoleOf(c) \in Role
BY DEF RoleOf, Role

LEMMA UnlimitedParses == Parses(EffectivelyUnlimited)
<1> DEFINE n == MaxDuration \div Hour
<1>1. Hour \in Nat /\ Hour > 0 /\ MaxDuration \in Nat /\ MaxDuration >= Hour
  BY TermsAssumption DEF TermsAssumption
<1>2. n \in Nat /\ n > 0 /\ n * Hour <= MaxDuration
  BY <1>1, Z3
<1>3. QED  BY <1>2 DEF EffectivelyUnlimited, Parses, Duration, Minutes

LEMMA SentinelsDoNotParse == ~ Parses(Unlimited) /\ ~ Parses(Absent)
BY DEF Parses, Duration, Unlimited, Absent

LEMMA MinutesType == ASSUME NEW d, Parses(d) PROVE Minutes(d) \in Nat
<1>1. d.n \in Nat /\ Hour \in Nat  BY TermsAssumption DEF TermsAssumption, Parses, Duration
<1>2. d.n * Hour \in Nat  BY <1>1
<1>3. QED  BY <1>1, <1>2 DEF Minutes

LEMMA AtMostTransitive ==
  ASSUME NEW a, NEW b, NEW c, AtMost(a, b), AtMost(b, c) PROVE AtMost(a, c)
<1>1. Parses(a) /\ Parses(b) /\ Parses(c)  BY DEF AtMost
<1>2. Minutes(a) \in Nat /\ Minutes(b) \in Nat /\ Minutes(c) \in Nat  BY <1>1, MinutesType
<1>3. Minutes(a) <= Minutes(b) /\ Minutes(b) <= Minutes(c)  BY DEF AtMost
<1>4. Minutes(a) <= Minutes(c)  BY <1>2, <1>3
<1>5. QED  BY <1>1, <1>4 DEF AtMost

LEMMA AtMostReflexive == ASSUME NEW d, Parses(d) PROVE AtMost(d, d)
<1>1. Minutes(d) \in Nat  BY MinutesType
<1>2. Minutes(d) <= Minutes(d)  BY <1>1
<1>3. QED  BY <1>2 DEF AtMost

\* A parsed maximum goes into ca.json as it is, and what goes there parses.
LEMMA StepMaxParses ==
  ASSUME NEW d, d = Unlimited \/ Parses(d)
  PROVE  Parses(StepMax(d)) /\ (Parses(d) => StepMax(d) = d)
BY UnlimitedParses, SentinelsDoNotParse DEF StepMax

LEMMA ClaimsOfAccepted ==
  ASSUME NEW p \in Accepted, NEW r \in Role
  PROVE  /\ Parses(Claims(p, r).max)
         /\ AtMost(RenewalClaims(p, r).default, RenewalClaims(p, r).max)
         /\ RenewalClaims(p, r).max = RenewalMax(p, r)
         /\ r = "host_bootstrap" => Claims(p, r).max = Ttls(p, r).max
<1>1. Ttls(p, r).max = Unlimited \/ Parses(Ttls(p, r).max)
  BY DEF Accepted, Valid
<1>2. AtMost(RenewalDefault(p, r), RenewalMax(p, r))
  BY DEF Accepted, Valid
<1>3. r = "host_bootstrap" => Parses(Ttls(p, r).max)
  BY DEF Accepted, Valid
<1>4. StepMax(RenewalMax(p, r)) = RenewalMax(p, r)
  BY <1>2, StepMaxParses DEF AtMost
<1>5. QED  BY <1>1, <1>2, <1>3, <1>4, StepMaxParses DEF Claims, RenewalClaims

\* What an approval may ask for parses; its own claims leave room for it unless
\* the policy's renewal maximum, or the host's lifetime, is beyond them.
LEMMA ApprovedTtl ==
  ASSUME NEW p \in Accepted, NEW c \in Client, NEW ttl, NEW infinite, Approvable(p, c, ttl, infinite)
  PROVE  /\ Parses(ttl)
         /\ ~ Signs(Claims(p, RoleOf(c)), ttl) =>
              IF c \in User
                THEN ~ AtMost(RenewalMax(p, RoleOf(c)), StepMax(Ttls(p, RoleOf(c)).max))
                ELSE ~ AtMost(ttl, Ttls(p, RoleOf(c)).max)
<1> DEFINE r == RoleOf(c)
<1>1. Parses(ttl)  BY UnlimitedParses DEF Approvable
<1>2. Claims(p, r).max = StepMax(Ttls(p, r).max)  BY DEF Claims
<1>3. CASE infinite /\ c \in User /\ Ttls(p, r).max = Unlimited /\ ttl = EffectivelyUnlimited
  <2>1. Claims(p, r).max = ttl  BY <1>2, <1>3 DEF StepMax
  <2>2. Signs(Claims(p, r), ttl)  BY <1>1, <2>1, AtMostReflexive DEF Signs
  <2>3. QED  BY <1>1, <2>2
<1>4. CASE c \in User /\ AtMost(ttl, RenewalMax(p, r))
  BY <1>1, <1>2, <1>4, AtMostTransitive DEF Signs
<1>5. CASE c \notin User
  <2>1. r = "host_bootstrap"  BY <1>5 DEF RoleOf
  <2>2. Claims(p, r).max = Ttls(p, r).max  BY <2>1, RoleOfType, ClaimsOfAccepted
  <2>3. QED  BY <1>1, <1>5, <2>2 DEF Signs
<1>6. QED  BY <1>3, <1>4, <1>5 DEF Approvable

-----------------------------------------------------------------------------
LEMMA Initially == Init => IInv
<1> SUFFICES ASSUME Init PROVE IInv  OBVIOUS
<1>1. First \in DOMAIN Policies /\ MaxEdits \in Nat
  BY TermsAssumption, SetUpAssumption DEF TermsAssumption, Accepted
<1>2. \A r \in Role : Parses(enrollment[r].max)
  BY SetUpAssumption, ClaimsOfAccepted DEF Init
<1>3. TypeOK  BY <1>1, <1>2 DEF Init, TypeOK
<1>4. Shapes  BY DEF Init, Shapes
<1>5. Approving  BY DEF Init, Approving, Idle
<1>6. QED  BY <1>3, <1>4, <1>5 DEF IInv

\* Steps that change neither an operation nor what is approved or claimed.
LEMMA CheckoutKeeps ==
  ASSUME IInv, committed' \in DOMAIN Policies, caPolicy' \in DOMAIN Policies,
         clientPolicy' \in [Client -> DOMAIN Policies], edits' \in 0 .. MaxEdits,
         UNCHANGED <<op, enrollment, renewal, grant>>
  PROVE  IInv'
BY DEF IInv, TypeOK, Shapes, Approving

\* An operation begins.
LEMMA StartKeeps ==
  ASSUME IInv, NEW o \in Operator, NEW new, op' = [op EXCEPT ![o] = new], new.policy \in Accepted,
         new.kind = "approve" =>
           new.client \in Client /\ Approvable(new.policy, new.client, new.ttl, new.infinite),
         UNCHANGED <<committed, caPolicy, clientPolicy, edits, enrollment, renewal, grant>>
  PROVE  IInv'
<1>1. op' = [q \in Operator |-> op'[q]] /\ \A q \in Operator : op'[q] = IF q = o THEN new ELSE op[q]
  BY DEF IInv, Shapes
<1>2. TypeOK'  BY <1>1 DEF IInv, TypeOK
<1>3. Shapes'  BY <1>1 DEF IInv, Shapes
<1>4. Approving'  BY <1>1 DEF IInv, Approving
<1>5. QED  BY <1>2, <1>3, <1>4 DEF IInv

\* An operation ends, having written the claims and the grant it wrote.
LEMMA FinishKeeps ==
  ASSUME IInv, NEW o \in Operator, op' = [op EXCEPT ![o] = Idle],
         UNCHANGED <<committed, caPolicy, clientPolicy, edits>>,
         enrollment' = [r \in Role |-> enrollment'[r]],
         renewal' = [c \in Client |-> renewal'[c]],
         grant' = [c \in Client |-> grant'[c]],
         \A r \in Role : Parses(enrollment'[r].max),
         \A c \in Client : renewal'[c] # NoClaims => AtMost(renewal'[c].default, renewal'[c].max),
         \A c \in Client : grant'[c] # NoGrant => Parses(grant'[c].ttl)
  PROVE  IInv'
<1>1. op' = [q \in Operator |-> op'[q]] /\ \A q \in Operator : op'[q] = IF q = o THEN Idle ELSE op[q]
  BY DEF IInv, Shapes
<1>2. TypeOK'  BY <1>1 DEF IInv, TypeOK
<1>3. Shapes'  BY <1>1 DEF Shapes
<1>4. Approving'  BY <1>1 DEF IInv, Approving, Idle
<1>5. QED  BY <1>2, <1>3, <1>4 DEF IInv

LEMMA FinishApproveKeeps == ASSUME IInv, NEW o \in Operator, FinishApprove(o) PROVE IInv'
<1> DEFINE c == op[o].client
           p == op[o].policy
           r == RoleOf(c)
<1>1. op[o].kind = "approve" /\ op[o] # Idle  BY DEF FinishApprove, Idle
<1>2. p \in Accepted /\ c \in Client /\ r \in Role /\ Approvable(p, c, op[o].ttl, op[o].infinite)
  BY <1>1, RoleOfType DEF IInv, TypeOK, Approving
<1>3. /\ enrollment' = [enrollment EXCEPT ![r] = Claims(p, r)]
      /\ renewal' = [renewal EXCEPT ![c] = RenewalClaims(p, r)]
      /\ grant' = [grant EXCEPT ![c] = [ttl |-> op[o].ttl, infinite |-> op[o].infinite]]
      /\ op' = [op EXCEPT ![o] = Idle]
      /\ UNCHANGED <<committed, caPolicy, clientPolicy, edits>>
  BY DEF FinishApprove
<1>4. /\ enrollment' = [q \in Role |-> enrollment'[q]]
      /\ \A q \in Role : enrollment'[q] = IF q = r THEN Claims(p, r) ELSE enrollment[q]
  BY <1>3 DEF IInv, Shapes
<1>5. /\ renewal' = [d \in Client |-> renewal'[d]]
      /\ \A d \in Client : renewal'[d] = IF d = c THEN RenewalClaims(p, r) ELSE renewal[d]
  BY <1>3 DEF IInv, Shapes
<1>6. /\ grant' = [d \in Client |-> grant'[d]]
      /\ \A d \in Client : grant'[d] = IF d = c THEN [ttl |-> op[o].ttl, infinite |-> op[o].infinite]
                                                ELSE grant[d]
  BY <1>3 DEF IInv, Shapes
<1>7. \A q \in Role : Parses(enrollment'[q].max)
  BY <1>2, <1>4, ClaimsOfAccepted DEF IInv, TypeOK
<1>8. \A d \in Client : renewal'[d] # NoClaims => AtMost(renewal'[d].default, renewal'[d].max)
  BY <1>2, <1>5, ClaimsOfAccepted DEF IInv, TypeOK
<1>9. \A d \in Client : grant'[d] # NoGrant => Parses(grant'[d].ttl)
  BY <1>2, <1>6, ApprovedTtl DEF IInv, TypeOK
<1>10. QED  BY <1>3, <1>4, <1>5, <1>6, <1>7, <1>8, <1>9, FinishKeeps

LEMMA FinishApplyKeeps == ASSUME IInv, NEW o \in Operator, FinishApply(o) PROVE IInv'
<1> DEFINE p == op[o].policy
<1>1. op[o].kind = "apply" /\ op[o] # Idle  BY DEF FinishApply, Idle
<1>2. p \in Accepted  BY <1>1 DEF IInv, TypeOK
<1>3. /\ enrollment' = [r \in Role |-> Claims(p, r)]
      /\ renewal' = [c \in Client |-> IF renewal[c] = NoClaims THEN NoClaims
                                                               ELSE RenewalClaims(p, RoleOf(c))]
      /\ op' = [op EXCEPT ![o] = Idle]
      /\ UNCHANGED <<committed, caPolicy, clientPolicy, edits, grant>>
  BY DEF FinishApply
<1>4. \A r \in Role : Parses(enrollment'[r].max)  BY <1>2, <1>3, ClaimsOfAccepted
<1>5. \A c \in Client : renewal'[c] # NoClaims => AtMost(renewal'[c].default, renewal'[c].max)
  BY <1>2, <1>3, RoleOfType, ClaimsOfAccepted
<1>6. \A c \in Client : grant'[c] # NoGrant => Parses(grant'[c].ttl)
  BY <1>3 DEF IInv, TypeOK
<1>7. grant' = [c \in Client |-> grant'[c]]  BY <1>3 DEF IInv, Shapes
<1>8. enrollment' = [r \in Role |-> enrollment'[r]] /\ renewal' = [c \in Client |-> renewal'[c]]
  BY <1>3
<1>9. QED  BY <1>3, <1>4, <1>5, <1>6, <1>7, <1>8, FinishKeeps

LEMMA AbandonKeeps == ASSUME IInv, NEW o \in Operator, Abandon(o) PROVE IInv'
BY FinishKeeps DEF Abandon, IInv, TypeOK, Shapes

LEMMA RedeemKeeps == ASSUME IInv, NEW c \in Client, Redeem(c) PROVE IInv'
<1>1. /\ grant' = [grant EXCEPT ![c] = NoGrant]
      /\ UNCHANGED <<committed, caPolicy, clientPolicy, edits, op, enrollment, renewal>>
  BY DEF Redeem
<1>2. /\ grant' = [d \in Client |-> grant'[d]]
      /\ \A d \in Client : grant'[d] = IF d = c THEN NoGrant ELSE grant[d]
  BY <1>1 DEF IInv, Shapes
<1>3. QED  BY <1>1, <1>2 DEF IInv, TypeOK, Shapes, Approving

LEMMA StartApproveKeeps ==
  ASSUME IInv, NEW o \in Operator, NEW c \in Client, StartApprove(o, c) PROVE IInv'
<1>1. PICK infinite \in BOOLEAN,
           ttl \in CertTtls \cup {EffectivelyUnlimited, Ttls(caPolicy, RoleOf(c)).default}
                     \cup {Row(caPolicy, u).certTtl : u \in User} :
        /\ Approvable(caPolicy, c, ttl, infinite)
        /\ op' = [op EXCEPT ![o] = [kind |-> "approve", policy |-> caPolicy, client |-> c, ttl |-> ttl,
                                    infinite |-> infinite]]
  BY DEF StartApprove
<1>2. /\ caPolicy \in Accepted
      /\ UNCHANGED <<committed, caPolicy, clientPolicy, edits, enrollment, renewal, grant>>
  BY DEF StartApprove
<1> DEFINE new == [kind |-> "approve", policy |-> caPolicy, client |-> c, ttl |-> ttl, infinite |-> infinite]
<1>3. /\ new.policy \in Accepted /\ new.client \in Client
      /\ Approvable(new.policy, new.client, new.ttl, new.infinite)
  BY <1>1, <1>2
<1>4. op' = [op EXCEPT ![o] = new]  BY <1>1
<1> HIDE DEF new
<1>5. QED  BY <1>2, <1>3, <1>4, StartKeeps

LEMMA StartApplyKeeps == ASSUME IInv, NEW o \in Operator, StartApply(o) PROVE IInv'
<1> DEFINE new == [kind |-> "apply", policy |-> caPolicy]
<1>1. /\ op' = [op EXCEPT ![o] = new] /\ new.policy \in Accepted /\ new.kind # "approve"
      /\ UNCHANGED <<committed, caPolicy, clientPolicy, edits, enrollment, renewal, grant>>
  BY DEF StartApply
<1> HIDE DEF new
<1>2. QED  BY <1>1, StartKeeps

\* The invariant is inductive: every commit, checkout, operation and redemption keeps it.
THEOREM Inductive == IInv /\ [Next]_vars => IInv'
<1> SUFFICES ASSUME IInv, [Next]_vars PROVE IInv'  OBVIOUS
<1>1. CASE Edit
  <2>1. committed' \in DOMAIN Policies /\ edits' \in 0 .. MaxEdits
    BY <1>1, TermsAssumption DEF TermsAssumption, Edit, IInv, TypeOK
  <2>2. QED  BY <1>1, <2>1, CheckoutKeeps DEF Edit, IInv, TypeOK
<1>2. CASE PullCa
  BY <1>2, CheckoutKeeps DEF PullCa, IInv, TypeOK
<1>3. ASSUME NEW c \in Client, PullClient(c) PROVE IInv'
  BY <1>3, CheckoutKeeps DEF PullClient, IInv, TypeOK
<1>4. CASE UNCHANGED vars
  BY <1>4, CheckoutKeeps DEF vars, IInv, TypeOK
<1>5. QED
  BY <1>1, <1>2, <1>3, <1>4, RedeemKeeps, StartApproveKeeps, FinishApproveKeeps, StartApplyKeeps,
     FinishApplyKeeps, AbandonKeeps DEF Next

\* Operations in flight, claims and grants are what accepted policies allow.
THEOREM Invariance == Spec => []IInv
<1>1. Init => IInv  BY Initially
<1>2. IInv /\ [Next]_vars => IInv'  BY Inductive
<1>3. QED  BY <1>1, <1>2, PTL DEF Spec

\* Every variable keeps its type: every claim in ca.json and every granted
\* lifetime parses, and an operation holds only a policy that was validated.
THEOREM TypeCorrect == Spec => []TypeOK
<1>1. IInv => TypeOK  BY DEF IInv
<1>2. QED  BY <1>1, Invariance, PTL

\* Whatever the policies, step-ca refuses the lifetime of a routine renewal only
\* to a client whose checkout is not the policy that ca.json was written from.
THEOREM AlwaysRefusedOnlyWhileBehind == Spec => []RefusedOnlyWhileBehind
<1>1. IInv => RefusedOnlyWhileBehind
  <2> SUFFICES ASSUME NEW c \in Client, clientPolicy[c] \in Accepted, Enrollable(clientPolicy[c], c),
                      renewal[c] = RenewalClaims(clientPolicy[c], RoleOf(c))
               PROVE  Renewable(c)
    BY DEF RefusedOnlyWhileBehind
  <2> DEFINE p == clientPolicy[c]
             r == RoleOf(c)
  <2>1. r \in Role /\ renewal[c].max = RenewalMax(p, r)  BY RoleOfType, ClaimsOfAccepted
  <2>2. AtMost(Asked(p, c), RenewalMax(p, r))
    BY <2>1 DEF Asked, Accepted, Valid, Enrollable
  <2>3. QED  BY <2>1, <2>2 DEF Renewable, Signs
<1>2. QED  BY <1>1, Invariance, PTL

\* A grant is refused under the claims of its own approval only where the policy
\* itself lets renewals, or a host's first certificate, go beyond the maximum.
THEOREM OwnGrantAlwaysSigned == Spec => OwnGrantIsSigned
<1> DEFINE Own ==
      \A o \in Operator, c \in Client :
        /\ op[o].kind = "approve" /\ op[o].client = c /\ op'[o] = Idle
        /\ grant'[c] # grant[c] /\ grant'[c] # NoGrant
        /\ ~Signs(enrollment'[RoleOf(c)], grant'[c].ttl)
        => LET p == op[o].policy IN
             IF c \in User
               THEN ~AtMost(RenewalMax(p, RoleOf(c)), StepMax(Ttls(p, RoleOf(c)).max))
               ELSE ~AtMost(op[o].ttl, Ttls(p, RoleOf(c)).max)
<1>1. ASSUME IInv, [Next]_vars PROVE [Own]_vars
  <2> SUFFICES ASSUME NEW o \in Operator, NEW c \in Client,
                      op[o].kind = "approve", op[o].client = c, op'[o] = Idle, grant'[c] # grant[c],
                      grant'[c] # NoGrant, ~ Signs(enrollment'[RoleOf(c)], grant'[c].ttl)
               PROVE  IF c \in User
                        THEN ~AtMost(RenewalMax(op[o].policy, RoleOf(c)),
                                     StepMax(Ttls(op[o].policy, RoleOf(c)).max))
                        ELSE ~AtMost(op[o].ttl, Ttls(op[o].policy, RoleOf(c)).max)
    OBVIOUS
  <2>1. op[o] # Idle  BY DEF Idle
  <2>2. op[o].policy \in Accepted /\ Approvable(op[o].policy, c, op[o].ttl, op[o].infinite)
    BY <1>1, <2>1 DEF IInv, TypeOK, Approving
  <2>3. PICK q \in Operator : FinishApprove(q)
    BY <1>1, <2>1 DEF Next, vars, Edit, PullCa, PullClient, Redeem, StartApprove, StartApply, FinishApply, Abandon
  <2>4. q = o
    BY <1>1, <2>1, <2>3 DEF FinishApprove, IInv, Shapes
  <2>5. /\ enrollment'[RoleOf(c)] = Claims(op[o].policy, RoleOf(c))
        /\ grant'[c].ttl = op[o].ttl
    BY <1>1, <2>3, <2>4, RoleOfType DEF FinishApprove, IInv, Shapes
  <2>6. QED  BY <2>2, <2>5, ApprovedTtl
<1>2. QED  BY <1>1, Invariance, PTL DEF Spec, OwnGrantIsSigned

-----------------------------------------------------------------------------
(***************************************************************************)
(* Where an inferred renewal maximum comes from.                           *)
(***************************************************************************)

\* The claims were written from p; where p leaves the renewal maximum to be
\* inferred from an unlimited enrollment maximum, it is the longest lifetime
\* of p's default and of the users that are active in p, and no longer.
WrittenFrom(p, r, claims) ==
  /\ claims = RenewalClaims(p, r)
  /\ Ttls(p, r).max = Unlimited /\ Ttls(p, r).renewalMax = Absent =>
       /\ claims.max \in Candidates(p, r)
       /\ \A d \in Candidates(p, r) : AtMost(d, claims.max)

\* The claims of every renewal provisioner are those of one accepted policy.
RenewalsAsLongAsNeeded ==
  \A c \in Client : renewal[c] # NoClaims =>
    \E p \in Accepted : WrittenFrom(p, RoleOf(c), renewal[c])

\* Every non-empty set of natural numbers has a least element.
LEMMA LeastNatural ==
  ASSUME NEW T, T \subseteq Nat, T # {}
  PROVE  \E m \in T : \A n \in T : m <= n
<1> DEFINE R == {ss \in Nat \X Nat : ss[1] < ss[2]}
<1>1. IsWellFoundedOn(R, Nat)  BY NatLessThanWellFounded DEF OpToRel
<1> HIDE DEF R
<1>2. PICK m \in T : \A n \in T : ~ (<<n, m>> \in R)  BY <1>1, WFMin
<1>3. \A n \in T : ~ (n < m)  BY <1>2 DEF R
<1>4. QED  BY <1>2, <1>3

\* The range of durations bounds what can be inferred, so there is a longest.
LEMMA LongestCandidate ==
  ASSUME NEW p, NEW r
  PROVE  \E d \in Candidates(p, r) : \A e \in Candidates(p, r) : Counted(e) <= Counted(d)
<1>1. MaxDuration \in Nat  BY TermsAssumption DEF TermsAssumption
<1>2. \A d : Counted(d) \in 0 .. MaxDuration
  BY <1>1, MinutesType DEF Counted, Parses
<1> DEFINE T == {MaxDuration - Counted(d) : d \in Candidates(p, r)}
<1>3. T \subseteq Nat  BY <1>1, <1>2
<1>4. T # {}  BY DEF Candidates
<1>5. PICK m \in T : \A n \in T : m <= n  BY <1>3, <1>4, LeastNatural
<1>6. PICK d \in Candidates(p, r) : m = MaxDuration - Counted(d)  BY <1>5
<1>7. ASSUME NEW e \in Candidates(p, r) PROVE Counted(e) <= Counted(d)
  <2>1. MaxDuration - Counted(d) <= MaxDuration - Counted(e)  BY <1>5, <1>6
  <2>2. Counted(d) \in 0 .. MaxDuration /\ Counted(e) \in 0 .. MaxDuration  BY <1>2
  <2>3. QED  BY <1>1, <2>1, <2>2
<1>8. QED  BY <1>7

LEMMA RenewalClaimsWritten ==
  ASSUME NEW p \in Accepted, NEW r \in Role
  PROVE  WrittenFrom(p, r, RenewalClaims(p, r))
<1> SUFFICES ASSUME Ttls(p, r).max = Unlimited, Ttls(p, r).renewalMax = Absent
             PROVE  /\ RenewalClaims(p, r).max \in Candidates(p, r)
                    /\ \A d \in Candidates(p, r) : AtMost(d, RenewalClaims(p, r).max)
  BY DEF WrittenFrom
<1>1. RenewalClaims(p, r).max = RenewalMax(p, r)  BY ClaimsOfAccepted
<1>2. RenewalMax(p, r) \in Candidates(p, r)
  BY LongestCandidate DEF RenewalMax, InferredRenewalMax
<1>3. ASSUME NEW d \in Candidates(p, r) PROVE AtMost(d, RenewalMax(p, r))
  <2>1. CASE d = RenewalDefault(p, r)  BY <2>1 DEF Accepted, Valid
  <2>2. ASSUME NEW u \in User, r = RoleOf(u), Row(p, u).active, d = Row(p, u).certTtl
        PROVE  AtMost(d, RenewalMax(p, r))
    BY <2>2 DEF Accepted, Valid
  <2>3. QED  BY <2>1, <2>2 DEF Candidates
<1>4. QED  BY <1>1, <1>2, <1>3

\* A step leaves the claims of a provisioner or writes those of the policy that
\* the operation has loaded.
LEMMA ClaimsKept ==
  ASSUME IInv, [Next]_vars, RenewalsAsLongAsNeeded
  PROVE  RenewalsAsLongAsNeeded'
<1>1. CASE UNCHANGED renewal  BY <1>1 DEF RenewalsAsLongAsNeeded
<1>2. ASSUME NEW o \in Operator, FinishApprove(o) PROVE RenewalsAsLongAsNeeded'
  <2> DEFINE c == op[o].client
             p == op[o].policy
  <2>1. p \in Accepted /\ c \in Client
    BY <1>2 DEF FinishApprove, Idle, IInv, TypeOK, Approving
  <2>2. \A d \in Client : renewal'[d] = IF d = c THEN RenewalClaims(p, RoleOf(c)) ELSE renewal[d]
    BY <1>2 DEF FinishApprove, IInv, Shapes
  <2>3. WrittenFrom(p, RoleOf(c), RenewalClaims(p, RoleOf(c)))
    BY <2>1, RoleOfType, RenewalClaimsWritten
  <2> HIDE DEF c, p
  <2>4. QED  BY <2>1, <2>2, <2>3 DEF RenewalsAsLongAsNeeded
<1>3. ASSUME NEW o \in Operator, FinishApply(o) PROVE RenewalsAsLongAsNeeded'
  <2> DEFINE p == op[o].policy
  <2>1. p \in Accepted  BY <1>3 DEF FinishApply, Idle, IInv, TypeOK
  <2>2. \A c \in Client : renewal'[c] # NoClaims => renewal'[c] = RenewalClaims(p, RoleOf(c))
    BY <1>3 DEF FinishApply
  <2> HIDE DEF p
  <2>3. QED  BY <2>1, <2>2, RoleOfType, RenewalClaimsWritten DEF RenewalsAsLongAsNeeded
<1>4. QED
  BY <1>1, <1>2, <1>3 DEF Next, vars, Edit, PullCa, PullClient, Redeem, StartApprove, StartApply, Abandon

\* For all policies, and whatever approvals and runs of apply ca overlap: every
\* renewal provisioner carries the claims of one accepted policy, and a maximum
\* that the policy leaves open is the longest lifetime of its active users and
\* its default: users no longer active keep nobody's renewals long in it.
THEOREM RenewalsAlwaysAsLongAsNeeded == Spec => []RenewalsAsLongAsNeeded
<1>1. Init => RenewalsAsLongAsNeeded  BY DEF Init, RenewalsAsLongAsNeeded
<1>2. IInv /\ RenewalsAsLongAsNeeded /\ [Next]_vars => RenewalsAsLongAsNeeded'  BY ClaimsKept
<1>3. QED  BY <1>1, <1>2, Invariance, PTL DEF Spec
=============================================================================
