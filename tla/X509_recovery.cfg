\* One replacement of the keys, with a crash anywhere, under fairness.
SPECIFICATION FairSpec
CONSTANTS
  a = a b = b
  k1 = k1 k2 = k2 k3 = k3 j1 = j1 j2 = j2 j3 = j3
  Run = {a}
  Ops = {"enroll", "cron", "renew"}
  Key = {k1, k2}
  Jwk = {j1, j2}
  TTL = 4
  MaxTime = 4
  MaxLosses = 0
  Faults = {"error", "kill"}
  None = None Partial = Partial
PROPERTIES EnrollmentEndsInACertificate
