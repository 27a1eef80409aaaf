SPECIFICATION Spec
CONSTANTS
  Tokens = {t1, t2}
  Requests = {r1, r2}
  Main = Main
  NoRoom = NoRoom
  Nobody = Nobody
CHECK_DEADLOCK FALSE
INVARIANTS
  NoOrphans
  TeardownOnce
  CleanExit
PROPERTIES
  DirectorySpec
  RequestsAnswered
  ShutdownExits
