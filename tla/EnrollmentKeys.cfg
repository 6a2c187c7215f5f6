\* Migrations and materializations overlap, cut twice, beside approvals, revocations and rollouts.
SPECIFICATION FairSpec
CONSTANTS
  a = a b = b k1 = k1 k2 = k2 ca = ca w1 = w1 w2 = w2 h = h u = u
  Proc = {a, b}
  Key = {k1, k2}
  Pw = {ca, w1, w2}
  CaPw = ca
  Enrollment = {h, u}
  RoleOf <- RolesOf
  FirstLive <- Sites
  MaxCuts = 2
  None = None
INVARIANTS TypeOK MarkerMeansComplete RolloutKeepsSigning TokensVerify RolloutKeepsEnrollments
PROPERTIES MigrationCompletes
