\* A host loses its server role: the support files go before the fragment that names them.
SPECIFICATION Spec
CONSTANTS
  a = a b = b u1 = u1 u2 = u2 h1 = h1 e1 = e1 e2 = e2
  Run = {a}
  Ops = {"apply"}
  UserKey = {u1, u2}
  HostKey = {h1}
  Edition = {e1, e2}
  Policies <- PoliciesTwo
  FirstPolicies <- FirstMC
  PathOrder <- ByName
  Life = 2
  Due = 1
  Faults = {}
  MaxFaults = 0
  MaxChanges = 1
  Absent = Absent Damaged = Damaged Roots = Roots None = None
INVARIANTS FragmentSupported
