CONSTANTS
  Main = main
  Workers = {w1}
  DBThreads = {d1, d2}
  Queues = {q1, q2}
  Jobs = {j1, j2}
  None = None
  BULK = 2
  SLICE = 1
  BULK_DB = 2
  Owners = {q1}
SPECIFICATION FairDBSpec
INVARIANTS
  SerialExecution
  ScheduledIffCounted
  CountMatchesJobs
  HandledOnce
  RequestsCounted
  AnswersInOrder
PROPERTIES
  ImplementsSerialExecutor
  EveryJobRuns
