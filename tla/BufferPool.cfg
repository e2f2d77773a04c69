\* Two workers that compete for two buffers while main still fills the pool.
CONSTANTS
  Main = main
  Workers = {w1, w2}
  Buffers = {b1, b2}
  None = None
SPECIFICATION Spec
CHECK_DEADLOCK FALSE
INVARIANTS
  BufferInOnePlace
  CountsAccount
  HandedOutEmpty
