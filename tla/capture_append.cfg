SPECIFICATION AnySpec
CONSTANTS
  c1 = c1
  c2 = c2
  c3 = c3
  Capturers = {c3}
  Incremental = TRUE
  StampFirst = TRUE
  Streams = FALSE
  Rewinds = FALSE
  Retention = FALSE
  CompactAfter = 1
  ArchiveAfter = 2
  MaxTime = 5
  MaxFaults = 1
INVARIANTS
  InOrder
  SkipIsSound
PROPERTIES
  Settles
