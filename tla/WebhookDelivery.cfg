SPECIFICATION Spec
CONSTANTS
  Hooks = {h1, h2}
  MaxAttempts = 2
  Tries = 2
  PostTimeout = 10
  Backoff = 1
  StartToClose = 20
  MaxLosses = 1
INVARIANT TypeOK
INVARIANT RowsTellAnswers
PROPERTY DeliveryEnds
CHECK_DEADLOCK FALSE
