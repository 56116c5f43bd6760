\* os.write stops inside a line, which is then retried.
SPECIFICATION Spec
CONSTANTS
  Lines = {l1, l2}
  Unserialisable = {}
  ThreadLines = {}
  QueueMax = 2
  Growth = 0
  Rounds = 3
  Flushers = {}
  MayCancelFlush = FALSE
  MayTear = TRUE
  Workers = {w1, w2}
  Batches = {b1, b2}
INVARIANT WrittenOnItsOwnLine
CHECK_DEADLOCK FALSE
