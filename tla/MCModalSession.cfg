SPECIFICATION Spec
CONSTANTS
  MaxDials = 3
  MaxAttempts = 2
  ErrCap = 2
CHECK_DEADLOCK FALSE
INVARIANTS
  OneReader
  LossGetsNoticed
  WritesToLiveConn
  ClosedForGood
PROPERTIES
  LinkSpec
  RunEndsUnlessStalled
