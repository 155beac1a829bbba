SPECIFICATION ServicesSpec
CONSTANTS
  AlertTasks = {"budget", "digest"}
  Watches <- WatchesOf
  AlertType <- TypeOf
  Scope <- ScopeOf
  Global = "all"
  Enabled = {"budget.alert", "daily.digest"}
  Routed = {"p", "all"}
  Channels = {"hook"}
  Tries <- TriesOf
  Limit = 1
  Cooldown = 2
  Period <- PeriodOf
  MaxLag = 1
  MaxFaults = 1
  Recs = {"r"}
  DayLength = 3
  ExpireAfter = 4
  SnoozeFor = {2, 4}
  Offset = 1
  Daemons = {"d1", "d2", "d3"}
  NoPid = "none"
  OneAtATime = TRUE
  MaxFailures = 2
  Tools = {"tool"}
  Messages = {"message"}
  Runs = {"r"}
  Threshold = 1
  Lookback = 2
  MaxTime = 4
  MaxMishaps = 1
INVARIANTS
  ServicesTypeOK
  FileMeansDaemon
  StallsRight
PROPERTIES
  Spaced
  UserDecides
  TellsFirst
  WakesUp
  StallsAreFound
  OverIsSealed
CHECK_DEADLOCK FALSE
