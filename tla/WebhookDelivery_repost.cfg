SPECIFICATION Spec
CONSTANTS
  Hooks = {h1, h2}
  MaxAttempts = 3
  Tries = 3
  PostTimeout = 10
  Backoff = 1
  StartToClose = 30
  MaxLosses = 0
INVARIANT AckedOnce
CHECK_DEADLOCK FALSE
