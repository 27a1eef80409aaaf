SPECIFICATION Spec
CONSTANTS
  FrameSizes = {2, 6}
  ChunkSize = 2
  InCap = 2
  OutCap = 2
  MaxFrames = 4
CHECK_DEADLOCK FALSE
INVARIANT TailReachesSTT
