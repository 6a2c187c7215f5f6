\* Overlapping enrollments, scheduled renewals and status through a certificate's lifetime, its keys replaced,
\* its credential lost once, runs failing or dying anywhere.
SPECIFICATION Spec
CONSTANTS
  a = a b = b
  k1 = k1 k2 = k2 k3 = k3 j1 = j1 j2 = j2 j3 = j3
  Run = {a, b}
  Ops = {"enroll", "cron", "status"}
  Key = {k1, k2}
  Jwk = {j1, j2}
  TTL = 2
  MaxTime = 2
  MaxLosses = 1
  Faults = {"error", "kill"}
  None = None Partial = Partial
SYMMETRY Symmetric
INVARIANTS TypeOK StaleServiceReported PairPartedOnlyByACut UnlockedVerdictSound ApprovedMaterialHeld
PROPERTIES LockedSuccessWorks
