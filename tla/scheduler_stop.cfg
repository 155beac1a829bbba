SPECIFICATION FairSpec
CONSTANTS
  t1 = t1
  t2 = t2
  warm = warm
  None = None
  r1 = r1
  r2 = r2
  Tasks = {t1, t2}
  WarmUp = warm
  CronRuns = {r1}
  WarmTasks <- WarmNone
  Stops = TRUE
  MaxStarts = 1
PROPERTIES
  StopReturns
CHECK_DEADLOCK FALSE
