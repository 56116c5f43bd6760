\* flush() is cancelled while its thread is writing.
SPECIFICATION Spec
CONSTANTS
  Lines = {l1, l2}
  Unserialisable = {}
  ThreadLines = {}
  QueueMax = 2
  Growth = 0
  Rounds = 3
  Flushers = {"f1"}
  MayCancelFlush = TRUE
  MayTear = FALSE
  Workers = {w1, w2}
  Batches = {b1, b2}
INVARIANT NoLineTwice
CHECK_DEADLOCK FALSE
