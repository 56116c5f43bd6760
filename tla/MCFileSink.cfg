\* The sink as the middleware uses it: nobody calls flush(), the disk answers.
SPECIFICATION FairSpec
CONSTANTS
  Lines = {l1, l2, l3}
  Unserialisable = {}
  ThreadLines = {l2}
  QueueMax = 2
  Growth = 1
  Rounds = 3
  Flushers = {}
  MayCancelFlush = FALSE
  MayTear = FALSE
  Workers = {w1, w2}
  Batches = {b1, b2}
INVARIANTS
  HeldWithinBound
  NothingVanishes
  CleanCloseSettlesAll
PROPERTIES
  KeepsContract
  EveryLineSettles
CHECK_DEADLOCK FALSE
