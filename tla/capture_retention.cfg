SPECIFICATION FairSpec
CONSTANTS
  Capturers = {c1}
  Incremental = FALSE
  StampFirst = TRUE
  Streams = TRUE
  Rewinds = TRUE
  Retention = TRUE
  CompactAfter = 1
  ArchiveAfter = 2
  MaxTime = 4
  MaxFaults = 1
INVARIANTS
  TypeOK
  HotIsComplete
  OfOneListing
  TierMatchesMark
PROPERTIES
  Settles
