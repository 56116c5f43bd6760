\* Two writes at a time, as after a cancelled flush: one of them opens the file again
\* while close() gives the path up, and the other writes through that descriptor.
SPECIFICATION Spec
CONSTANTS
  Workers = {w1, w2}
  FDs = {d1, d2, d3}
  Inodes = {i1, i2}
  Limit = 1
  Backups = 0
  BatchShapes <- UnitBatches
  Calls = 3
  HasRival = TRUE
  FlockHolds = TRUE
SYMMETRY Interchangeable
INVARIANT NoLateWriter
CHECK_DEADLOCK FALSE
