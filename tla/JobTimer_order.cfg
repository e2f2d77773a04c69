CONSTANTS
  Threads = {t1, t2}
  Items = {i1, i2}
  Delays = {0, 1}
  MAXTICK = 2
  None = None
SPECIFICATION Spec
PROPERTIES
  StopsWhenNoneIsDue
