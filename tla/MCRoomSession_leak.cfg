SPECIFICATION Spec
CONSTANTS
  Sessions = {s1, s2}
  s1 = s1
  s2 = s2
  Peers = {p1, p2}
  Messages <- MCMessages
  SpeakerCap = 2
  QueueCap = 2
  MaxMessages = 2
  NoSession = NoSession
  NoPeer = NoPeer
CHECK_DEADLOCK FALSE
INVARIANT LeaveClosesAll
