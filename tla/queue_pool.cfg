SPECIFICATION FairSpec
CONSTANTS
  NoJob = NoJob
  Jobs = {j1, j2, j3}
  Workers = {w1, w2}
  QueueSize = 2
  Deadlined = {j1}
  Shutdown = TRUE
INVARIANTS
  TypeOK
  Exclusive
  NothingLost
  Accounted
  FIFO
PROPERTIES
  Answered
  StopReturns
CHECK_DEADLOCK FALSE
