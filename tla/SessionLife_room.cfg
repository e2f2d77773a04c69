CONSTANTS
  Threads = {t1, t2}
  Sessions = {s1, s2}
  Accepting = {s1}
  ROOMS = 1
  None = None
  RioQueueMayFail = FALSE
  Main = Main
SPECIFICATION Spec
CHECK_DEADLOCK FALSE
INVARIANTS DepartedLeavesRoom
