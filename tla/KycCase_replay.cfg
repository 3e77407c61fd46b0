SPECIFICATION Spec
CONSTANTS
  Calls = {c1, c2}
  Reviewers = {r1}
  DocumentSets <- MCComplete
  MaxAttempts = 1
  MaxRuns = 2
  MaxSubmits = 1
  LateWrites = FALSE
  Redrives = FALSE
PROPERTY DecidedNotReopened
CHECK_DEADLOCK FALSE
