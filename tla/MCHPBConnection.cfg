SPECIFICATION Spec
CONSTANTS
  MaxDials = 3
  ErrCap = 1
CHECK_DEADLOCK FALSE
INVARIANTS
  OneConnection
  NoSilentDeath
  ClosedForGood
PROPERTIES
  LinkSpec
  CloseReturnsUnlessStalled
