\* Two overlapping operators, every fault, no legacy state, no restores.
SPECIFICATION Spec
CONSTANTS
  Proc = {p1, p2}
  p1 = p1 p2 = p2 u = u h = h x = x
  k1 = k1 k2 = k2 r1 = r1 r2 = r2
  Id <- IdsUH
  Key = {k1, k2}
  Ren = {r1, r2}
  KindOf <- KindUH
  Command <- CommandUH
  Policies <- PoliciesUH
  InitConfigs <- InitUH
  Restores = {}
  MaxRestores = 0
  Faults = {"fsync", "afterWrite"}
  Unbound = Unbound NoProv = NoProv NoConfig = NoConfig Down = Down Idle = Idle None = None
SYMMETRY SymProc
INVARIANTS TypeOK RegistrySavable LiveIsRegistered PendingResumable
PROPERTIES LedgerKeepsTombstones LedgerLeads ImplementsAuthority
