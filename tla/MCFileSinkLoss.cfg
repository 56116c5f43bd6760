\* close() gives up while a line is queued or parked.
SPECIFICATION Spec
CONSTANTS
  Lines = {l1, l2}
  Unserialisable = {}
  ThreadLines = {}
  QueueMax = 2
  Growth = 0
  Rounds = 3
  Flushers = {}
  MayCancelFlush = FALSE
  MayTear = FALSE
  Workers = {w1, w2}
  Batches = {b1, b2}
INVARIANT EveryLossCounted
CHECK_DEADLOCK FALSE
