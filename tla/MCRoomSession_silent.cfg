SPECIFICATION Spec
CONSTANTS
  Sessions = {s1}
  s1 = s1
  s2 = s2
  Peers = {p1, p2}
  Messages <- MCOneSpeaker
  SpeakerCap = 1
  QueueCap = 2
  MaxMessages = 3
  NoSession = NoSession
  NoPeer = NoPeer
CHECK_DEADLOCK FALSE
PROPERTY LeaveReturnsIfWritesEnd
