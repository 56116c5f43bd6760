\* Two writes at a time, as after a cancelled flush, on a path another sink wants.
SPECIFICATION Spec
CONSTANTS
  Workers = {w1, w2}
  FDs = {d1, d2, d3}
  Inodes = {i1, i2}
  Limit = 1
  Backups = 0
  BatchShapes <- UnitBatches
  Calls = 2
  HasRival = TRUE
  FlockHolds = TRUE
SYMMETRY Interchangeable
INVARIANTS
  NoMisdirectedWrite
  NothingLeftOpen
  AppendsToActive
  PathsDisjoint
CHECK_DEADLOCK FALSE
