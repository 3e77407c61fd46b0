SPECIFICATION Spec
CONSTANTS
  CurrentYY = 26
  StateCodes <- MCStateCodes
  Identities <- MCIdentities
  MisreadAt <- MCMisreadAt
  SlipBy = {1, 5}
  MaxDamage = 2
  Lost = {0, 2}
  VlmMistake <- MCVlmMistake
  OtherPhotos <- MCOtherPhotos
  MaxUploads = 2
  MaxRetries = 2
  MaxAttempts = 2
  RetriedWith <- MCRetriedWith
INVARIANT TypeOK
INVARIANT AcceptedDatesAreTrue
INVARIANT NumberMisreadIsCaught
INVARIANT ReadablePagesNeedNoModel
INVARIANT EvidenceAgrees
CHECK_DEADLOCK FALSE
