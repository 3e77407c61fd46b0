SPECIFICATION Spec
CONSTANTS
  old = old
  new = new
  i1 = i1
  i2 = i2
  i3 = i3
  s1 = s1
  s2 = s2
  e1 = e1
  e2 = e2
  e3 = e3
  None = None
  Collections = {old, new}
  Entries = {e1, e2, e3}
  Chunks <- MCChunks
  Ingests = {i1, i2, i3}
  ListOf <- MCListOf
  Screens = {s1, s2}
  VectorNear <- MCVectorNear
  SoundsLike <- MCSoundsLike
  VectorLimit = 1
  PhoneticLimit = 1
  UsePhonetic = TRUE
  Careless = FALSE
INVARIANT TypeOK
INVARIANT SnapshotReady
INVARIANT HitsNameTheirList
INVARIANT ScreensMissNothing
CHECK_DEADLOCK FALSE
