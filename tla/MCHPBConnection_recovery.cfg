SPECIFICATION Spec
CONSTANTS
  MaxDials = 2
  ErrCap = 2
CHECK_DEADLOCK FALSE
INVARIANT RecoveryIsSafe
