SPECIFICATION FairSpec
CONSTANTS
  Calls = {c1}
  Reviewers = {r1}
  DocumentSets <- MCAnyDocuments
  MaxAttempts = 1
  MaxRuns = 1
  MaxSubmits = 2
  LateWrites = FALSE
  Redrives = FALSE
INVARIANT OpenCaseIsWorked
PROPERTY RunSettles
PROPERTY VerdictClosesRun
CHECK_DEADLOCK FALSE
