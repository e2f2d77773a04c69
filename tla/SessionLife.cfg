CONSTANTS
  Threads = {t1, t2}
  Sessions = {s1, s2}
  Accepting = {s1}
  ROOMS = 1
  None = None
  RioQueueMayFail = TRUE
  Main = Main
SPECIFICATION FairSpec
CHECK_DEADLOCK FALSE
INVARIANTS
  ReleasedOnce
  Watched
  Departing
  BuffersHeld
PROPERTIES
  DepartureCompletes
