CONSTANTS
  Main = main
  Workers = {w1, w2}
  Buffers = {b1, b2}
  None = None
SPECIFICATION FairSpec
CHECK_DEADLOCK FALSE
PROPERTIES AcquireReturns
