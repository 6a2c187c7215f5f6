\* A site that predates the registry, and one restore of the registry or the ledger.
SPECIFICATION Spec
CONSTANTS
  Proc = {p1}
  p1 = p1 p2 = p2 u = u h = h x = x
  k1 = k1 k2 = k2 r1 = r1 r2 = r2
  Id <- IdsUH
  Key = {k1, k2}
  Ren = {r1, r2}
  KindOf <- KindUH
  Command <- CommandLegacy
  Policies <- PoliciesUH
  InitConfigs <- InitLegacy
  Restores = {"registry", "ledger"}
  MaxRestores = 1
  Faults = {"afterWrite"}
  Unbound = Unbound NoProv = NoProv NoConfig = NoConfig Down = Down Idle = Idle None = None
INVARIANTS ActiveIsBound RetiredStaysDead
