SPECIFICATION FairSpec
CONSTANTS
  u1 = u1
  u2 = u2
  h = h
  o1 = o1
  o2 = o2
  User = {u1, u2}
  Host = {h}
  Client = {u1, h}
  Operator = {o1, o2}
  Hour = 2
  MaxDuration = 5
  Policies <- PoliciesX
  First = "legacy"
  CertTtls <- CertTtlsX
  MaxEdits = 1
INVARIANTS TypeOK RefusedOnlyWhileBehind
PROPERTIES DeactivationShortensRenewals RenewalsResume
CHECK_DEADLOCK FALSE
