\* An X.509 enrollment beside its host, its declaration and backups of ca.json coming and
\* going, and a revocation that is repeated until it is finished.
SPECIFICATION FairSpec
CONSTANTS
  Proc = {p1}
  p1 = p1 p2 = p2 u = u h = h x = x
  k1 = k1 k2 = k2 r1 = r1 r2 = r2
  Id <- IdsHX
  Key = {k1, k2}
  Ren = {r1, r2}
  KindOf <- KindHX
  Command <- CommandX
  Policies <- PoliciesHX
  InitConfigs <- InitHX
  Restores = {"caJson"}
  MaxRestores = 1
  Faults = {"fsync", "afterWrite"}
  Unbound = Unbound NoProv = NoProv NoConfig = NoConfig Down = Down Idle = Idle None = None
INVARIANTS RevokeNeverRefused ApplyPurgesTombstones
PROPERTIES RevocationCompletes
