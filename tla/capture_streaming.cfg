SPECIFICATION Spec
CONSTANTS
  Capturers = {c1}
  Incremental = TRUE
  StampFirst = TRUE
  Streams = TRUE
  Rewinds = FALSE
  Retention = FALSE
  CompactAfter = 1
  ArchiveAfter = 2
  MaxTime = 4
  MaxFaults = 0
INVARIANTS
  SkipIsSound
