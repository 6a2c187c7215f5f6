------------------------- MODULE MCCertificateTerms -------------------------
(* Instances of CertificateTerms: an hour of two minutes and a range of five *)
(* minutes, so that the effectively unlimited lifetime is four.              *)
EXTENDS CertificateTermsProperties

CONSTANTS u1, u2, h, o1, o2

M(n) == [n |-> n, unit |-> "m"]
H(n) == [n |-> n, unit |-> "h"]

Lifetimes(default, max, renewalDefault, renewalMax) ==
  [default |-> default, max |-> max, renewalDefault |-> renewalDefault,
   renewalMax |-> renewalMax]
UserRow(certTtl, active, allow) ==
  [certTtl |-> certTtl, active |-> active, enrolls |-> TRUE, allowInfinite |-> allow]
Policy(userTerms, hostTerms, first, second) ==
  [roles |-> [r \in Role |-> IF r = "user_enrollment" THEN userTerms ELSE hostTerms],
   users |-> [u \in User |-> IF u = u1 THEN first ELSE second]]

Legacy == Lifetimes(M(1), Unlimited, Absent, Absent)
HostTerms == Lifetimes(M(1), H(1), Absent, Absent)

\* Unlimited enrollment, the second user's certificates the longest.
LegacyPolicy == Policy(Legacy, HostTerms, UserRow(H(1), TRUE, TRUE), UserRow(H(2), TRUE, FALSE))
\* The second user deactivated.
Deactivated == Policy(Legacy, HostTerms, UserRow(H(1), TRUE, FALSE), UserRow(H(2), FALSE, FALSE))
\* A finite maximum, which the first user's lifetime equals in another unit.
Finite == Policy(Lifetimes(M(1), H(1), Absent, Absent), HostTerms,
                 UserRow(M(2), TRUE, TRUE), UserRow(M(1), TRUE, FALSE))
\* A renewal maximum beyond the enrollment maximum, a host default beyond its own.
Explicit == Policy(Lifetimes(M(1), H(1), M(1), M(3)), Lifetimes(M(3), H(1), M(1), M(2)),
                   UserRow(M(3), TRUE, FALSE), UserRow(M(1), TRUE, FALSE))
\* A lifetime between the longest whole-hour duration and the end of the range.
Boundary == Policy(Legacy, HostTerms, UserRow(M(5), TRUE, TRUE), UserRow(M(1), TRUE, FALSE))
\* The first user deactivated.
Without == Policy(Legacy, HostTerms, UserRow(H(1), FALSE, FALSE), UserRow(M(1), TRUE, FALSE))
\* The first user may no longer enroll, but its lifetime still counts.
Unenrolled == [Policy(Legacy, HostTerms, UserRow(H(2), TRUE, TRUE), UserRow(M(1), TRUE, FALSE))
                 EXCEPT !.users[u1].enrolls = FALSE]
\* Refused: a lifetime beyond the maximum; one out of range.
TooLong == Policy(Lifetimes(M(1), H(1), Absent, Absent), HostTerms,
                  UserRow(H(2), TRUE, FALSE), UserRow(M(1), TRUE, FALSE))
OutOfRange == Policy(Legacy, HostTerms, UserRow(H(3), TRUE, FALSE), UserRow(M(1), TRUE, FALSE))

PoliciesX == [legacy   |-> LegacyPolicy, deactivated |-> Deactivated,
              finite   |-> Finite,       explicit    |-> Explicit,
              boundary |-> Boundary,     without     |-> Without,
              unenrolled |-> Unenrolled,
              tooLong  |-> TooLong,      outOfRange  |-> OutOfRange]
CertTtlsX == {M(3)}
=============================================================================
