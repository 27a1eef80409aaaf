SPECIFICATION Spec
CONSTANTS
  Users = {u1, u2}
  MaxConn = 2
  QueueCap = 2
  SpeakerCap = 2
  MaxChanges = 2
CHECK_DEADLOCK FALSE
INVARIANTS
  SpeakersFollowCall
  InternalNotSpeakers
PROPERTY SpeakersAreHeard
