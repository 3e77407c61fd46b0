SPECIFICATION Spec
CONSTANTS
  Calls = {c1}
  Reviewers = {r1, r2}
  DocumentSets <- MCComplete
  MaxAttempts = 2
  MaxRuns = 1
  MaxSubmits = 1
  LateWrites = FALSE
  Redrives = FALSE
INVARIANT TypeOK
INVARIANT AutoApprovalEvidenced
INVARIANT FirstVerdictWins
INVARIANT ReportedDecisionIsStored
PROPERTY ImplementsLifecycle
CHECK_DEADLOCK FALSE
SYMMETRY MCSymmetry
