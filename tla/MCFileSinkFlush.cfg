\* The same sink with a caller of flush() that may be cancelled, and a disk that
\* may never answer.
SPECIFICATION StalledDiskSpec
CONSTANTS
  Lines = {l1, l2, l3}
  Unserialisable = {l3}
  ThreadLines = {}
  QueueMax = 2
  Growth = 1
  Rounds = 2
  Flushers = {"f1"}
  MayCancelFlush = TRUE
  MayTear = FALSE
  Workers = {w1, w2}
  Batches = {b1, b2}
INVARIANTS
  LostOnSecondAttempt
PROPERTIES
  CloseReturns
CHECK_DEADLOCK FALSE
