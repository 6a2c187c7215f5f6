--------------------- MODULE CertificateTermsProperties ---------------------
(* What the durations of a policy, of ca.json and of issued certificates   *)
(* must have to do with one another.                                       *)
EXTENDS CertificateTerms

\* Every variable stays within its type; a process holds only a policy that
\* passed validation, because loading it validates it (run, load_valid_model).
TypeOK ==
  /\ {committed, caPolicy} \subseteq DOMAIN Policies
  /\ clientPolicy \in [Client -> DOMAIN Policies]
  /\ edits \in 0..MaxEdits
  /\ \A o \in Operator :
       op[o] # Idle => op[o].policy \in Accepted
  /\ \A r \in Role : Parses(enrollment[r].max)
  /\ \A c \in Client : renewal[c] # NoClaims => AtMost(renewal[c].default, renewal[c].max)
  /\ \A c \in Client : grant[c] # NoGrant => Parses(grant[c].ttl)

\* A certificate is routinely renewable for as long as ca.json was written
\* from the policy the client itself holds: step-ca can refuse a renewal for
\* its lifetime only where the two checkouts differ.  This is what
\* validate_relations exists for: the request comes from cert_ttl or
\* renewal_default_ttl, the claim from renewal_max_ttl and its fallbacks.
RefusedOnlyWhileBehind ==
  \A c \in Client :
    /\ clientPolicy[c] \in Accepted /\ Enrollable(clientPolicy[c], c)
    /\ renewal[c] = RenewalClaims(clientPolicy[c], RoleOf(c))
    => Renewable(c)

\* The enrollment maximum bounds what an ordinary grant may ask for, unless
\* the policy says otherwise itself: a grant that step-ca refuses under the
\* claims its own approval installed was approved under a renewal maximum, or
\* for a host a lifetime, beyond the enrollment maximum, which no validation
\* relates to it (user_approval_cert_ttl, create_host_token).
OwnGrantIsSigned ==
  [][\A o \in Operator, c \in Client :
       /\ op[o].kind = "approve" /\ op[o].client = c /\ op'[o] = Idle
       /\ grant'[c] # grant[c] /\ grant'[c] # NoGrant
       /\ ~Signs(enrollment'[RoleOf(c)], grant'[c].ttl)
       => LET p == op[o].policy IN
            IF c \in User
              THEN ~AtMost(RenewalMax(p, RoleOf(c)), StepMax(Ttls(p, RoleOf(c)).max))
              ELSE ~AtMost(op[o].ttl, Ttls(p, RoleOf(c)).max)]_vars

\* A user no longer active does not keep the others' renewals long: under an
\* unlimited enrollment maximum, with no explicit renewal maximum, the claims
\* of every live renewal provisioner come down, for good, to a lifetime that
\* the settled policy gives to a user still active, or to its default
\* (inferred_renewal_max_ttl and apply ca).
DeactivationShortensRenewals ==
  LET enroll == Ttls(committed, "user_enrollment") IN
  \A c \in Client \cap User :
    <>[](\/ committed \notin Accepted \/ renewal[c] = NoClaims
         \/ enroll.max # Unlimited \/ enroll.renewalMax # Absent
         \/ renewal[c].max = enroll.default
         \/ renewal[c].max = enroll.renewalDefault
         \/ \E u \in User : /\ Row(committed, u).active
                            /\ renewal[c].max = Row(committed, u).certTtl)

\* Once the review settles on an acceptable policy, every enrolled client that
\* may still enroll by it can renew again for good, whatever mixture of old and
\* new policy the approvals and runs of apply ca in flight had installed.
RenewalsResume ==
  \A c \in Client :
    <>[](\/ committed \notin Accepted \/ ~Enrollable(committed, c)
         \/ renewal[c] = NoClaims
         \/ Renewable(c))
=============================================================================
