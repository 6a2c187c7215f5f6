\* A user or a host enrolls, cut anywhere, beside the scheduled renewal.
SPECIFICATION FairSpec
CONSTANTS
  a = a b = b k1 = k1 k2 = k2 k3 = k3 j1 = j1 j2 = j2 j3 = j3 w1 = w1 w2 = w2
  Kinds = {"user", "host"}
  Enroller = {a}
  Renewer = {b}
  Key = {k1, k2, k3}
  Jwk = {j1, j2, j3}
  Pw = {w1, w2}
  Upsets = {"revoke", "replace", "remove", "forget"}
  MaxFaults = 1
  MaxUpsets = 1
  None = None
INVARIANTS TypeOK StoredPasswordOpens
PROPERTIES CompletionIsRenewable InitialCertificateSurvives EnrollmentCompletes
