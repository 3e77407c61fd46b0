SPECIFICATION Spec
CONSTANTS
  Cases = {k1}
  MaxMutations = 2
  MaxChanges = 2
  MaxFaults = 2
INVARIANT TypeOK
INVARIANT PlaceholderIsTemporary
PROPERTY Converges
CHECK_DEADLOCK FALSE
