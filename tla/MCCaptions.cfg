SPECIFICATION Spec
CONSTANTS
  MaxWords = 3
  QueueCap = 2
  Interval = 2
INVARIANTS
  NothingLost
  DirtyMeansUnsent
PROPERTIES
  StreamSpec
  WordsGetShownUnlessStalled
  RemovalEndsUnlessStalled
