CONSTANTS
  Threads = {t1, t2}
  Packets = {p1, p2}
  None = None
  BULK = 2
  CAP = 2
  WARN = 2
  RioSendMayFail = FALSE
SPECIFICATION Spec
CHECK_DEADLOCK FALSE
INVARIANTS ZeroBytesMeansDeadLink
