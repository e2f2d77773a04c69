\* Two threads, and two timers of which either may be due before the other.
CONSTANTS
  Threads = {t1, t2}
  Items = {i1, i2}
  Delays = {0, 1}
  MAXTICK = 2
  None = None
SPECIFICATION FairSpec
INVARIANTS
  OneDistributor
  ItemInOnePlace
  FiresOnceAndNotEarly
PROPERTIES
  EveryTimerFires
  ImplementsTimerService
