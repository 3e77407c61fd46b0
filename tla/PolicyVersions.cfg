SPECIFICATION Spec
CONSTANTS
  None = None
  Unit = 20
  Nationalities = {"FRA", "PRK"}
  a1 = a1
  a2 = a2
  b1 = b1
  t1 = t1
  t2 = t2
  Tenants = {t1, t2}
  Admins = {a1, a2, b1}
  Clients = {c1, c2}
  TenantOf <- MCTenantOf
  Documents <- MCDocuments
  Cases <- MCCases
  LastDay = 1
INVARIANT TypeOK
INVARIANT VersionsOwned
INVARIANT PinIsCurrent
INVARIANT ScoredUnderPinned
INVARIANT WorseIsNotCleared
CHECK_DEADLOCK FALSE
