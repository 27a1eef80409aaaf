SPECIFICATION Spec
CONSTANTS
  Sessions = {s1, s2}
  s1 = s1
  s2 = s2
  Peers = {p1, p2}
  Messages <- MCTwoSpeakers
  SpeakerCap = 2
  QueueCap = 1
  MaxMessages = 3
  NoSession = NoSession
  NoPeer = NoPeer
CHECK_DEADLOCK FALSE
INVARIANTS
  CloseChannelOnce
  LockOrder
  DisjointTeardown
  RoomTablesAgree
  DrainBeforeClose
  SignalledPeersGetClosed
PROPERTIES
  LeaveReturnsUnlessHeld
  OrchMovesOnUnlessHeld
  HealthAnswersUnlessRequestStalls
