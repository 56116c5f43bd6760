\* The same, asked whether shipping to another data stream is undone.
SPECIFICATION Spec
CONSTANTS
  None = None
  t1 = t1
  t2 = t2
  Workers = {w1}
  Rounds = 2
  TTL = 1
  MaxCache = 2
  MaxNow = 1
  Documents <- MCDocuments
  Unhashable = {"c"}
  BatchSizes = {3}
  MaxStarts = 2
  Stream <- OldAndNew
INVARIANTS
  UnshipUndoes
CHECK_DEADLOCK FALSE
