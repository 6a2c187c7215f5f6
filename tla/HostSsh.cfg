\* Overlapping apply, enroll and renew while the policy changes under them and one fault strikes.
SPECIFICATION FairSpec
CONSTANTS
  a = a b = b u1 = u1 u2 = u2 h1 = h1 e1 = e1 e2 = e2
  Run = {a, b}
  Ops = {"apply", "enroll", "renew"}
  UserKey = {u1, u2}
  HostKey = {h1}
  Edition = {e1, e2}
  Policies <- PoliciesMC
  FirstPolicies <- FirstMC
  PathOrder <- KrlsAndFragments
  Life = 1
  Due = 0
  Faults = {"fail", "kill", "damage"}
  MaxFaults = 1
  MaxChanges = 1
  Absent = Absent Damaged = Damaged Roots = Roots None = None
INVARIANTS TypeOK RevocationsStay OnePolicyAtRest SshdAsInstalled
PROPERTIES PolicyConverges SshdRecovers
