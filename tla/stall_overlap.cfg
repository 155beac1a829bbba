SPECIFICATION Spec
CONSTANTS
  Tools = {k1}
  Messages = {}
  Runs = {r1, r2}
  Threshold = 1
  Lookback = 3
  MaxTime = 5
  MaxMishaps = 0
INVARIANTS
  SealedMeansOver
