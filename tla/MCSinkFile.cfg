\* One write at a time, as without cancelled flushes, on a path that another sink
\* wants: rotation, its bound, the file lines go to, descriptors left to the writer.
SPECIFICATION FairSpec
CONSTANTS
  Workers = {w1}
  FDs = {d1, d2}
  Inodes = {i1, i2, i3}
  Limit = 1
  Backups = 1
  BatchShapes <- SmallBatches
  Calls = 2
  HasRival = TRUE
  FlockHolds = TRUE
INVARIANTS
  CountsItsBytes
  FilesBounded
  NoMisdirectedWrite
  NothingLeftOpen
  AppendsToActive
  PathsDisjoint
  NoLateWriter
PROPERTIES
  DescriptorsReleased
CHECK_DEADLOCK FALSE
