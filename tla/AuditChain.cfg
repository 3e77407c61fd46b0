SPECIFICATION Spec
CONSTANTS
  a = a
  i1 = i1
  i2 = i2
  i3 = i3
  t1 = t1
  t2 = t2
  Writers = {a, i1, i2, i3}
  Attempts = {a}
  Tenants = {t1, t2}
  Services = {"pipeline", "intake"}
  BodyOf <- MCBodyOf
  TenantOf <- MCTenantOf
  ServiceOf <- MCServiceOf
  PoolSize = 1
  Tampering = TRUE
INVARIANT TypeOK
INVARIANT ChainIntact
INVARIANT TamperEvident
INVARIANT TrailTellsOutcome
PROPERTY ImplementsLog
PROPERTY RecordsFinish
CHECK_DEADLOCK FALSE
