\* close() and a thread that undoes its late open both release the path.
SPECIFICATION Spec
CONSTANTS
  Workers = {w1}
  FDs = {d1, d2}
  Inodes = {i1, i2}
  Limit = 1
  Backups = 0
  BatchShapes <- UnitBatches
  Calls = 1
  HasRival = TRUE
  FlockHolds = TRUE
INVARIANT ClaimReleasedOnce
CHECK_DEADLOCK FALSE
