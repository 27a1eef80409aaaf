SPECIFICATION Spec
CONSTANTS
  MaxDials = 2
  MaxAttempts = 2
  ErrCap = 2
CHECK_DEADLOCK FALSE
PROPERTY LossIsRetried
