\* Three threads: two senders and the worker that dequeues a completion; a batch
\* of two, a buffer for two, and a third packet that overflows or kicks.
CONSTANTS
  Threads = {t1, t2, t3}
  Packets = {p1, p2, p3}
  None = None
  BULK = 2
  CAP = 2
  WARN = 2
  RioSendMayFail = TRUE
SPECIFICATION FairSpec
CHECK_DEADLOCK FALSE
INVARIANTS
  SingleSender
  FlagHasOwner
  InFlightIntact
  ContextHeld
  SendOrder
  CountAccounts
PROPERTIES
  PumpSettles
  ImplementsSendStream
