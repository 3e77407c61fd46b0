SPECIFICATION Spec
CONSTANTS
  a1 = a1
  a2 = a2
  anna = anna
  b1 = b1
  tenantA = tenantA
  tenantB = tenantB
  Keys <- MCKeys
  Reviewers <- MCReviewers
  Bootstrapped <- MCBootstrapped
  TenantOf <- MCTenantOf
  Roles = {reviewer, auditor}
  DecisionMakers = {reviewer}
  Requests = {q1, q2}
  Limit = 2
  Window = 4
  TicksPerSecond = 2
  MaxClock = 9
CONSTRAINT OneThingAtATime
SYMMETRY Symmetry
INVARIANT TypeOK
INVARIANT BurstBounded
INVARIANT RetryAfterIsEnough
PROPERTY LastKeyRevokedIsFinal
