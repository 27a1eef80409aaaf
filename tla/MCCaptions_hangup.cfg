SPECIFICATION Spec
CONSTANTS
  MaxWords = 3
  QueueCap = 2
  Interval = 2
INVARIANT CloseFlushesAll
