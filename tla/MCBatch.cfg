\* Two batches of three documents through one worker and a cache of two, over two
\* lives of the process.
SPECIFICATION Spec
CONSTANTS
  None = None
  t1 = t1
  t2 = t2
  Workers = {w1}
  Rounds = 2
  TTL = 1
  MaxCache = 2
  MaxNow = 1
  Documents <- MCDocuments
  Unhashable = {"c"}
  BatchSizes = {3}
  MaxStarts = 2
  Stream <- OldAndNew
INVARIANTS
  NothingLeftBehind
  PatchIsItsOwn
  VerifyTellsTheLosses
  TamperingShows
PROPERTIES
  ApplyReturns
CHECK_DEADLOCK FALSE
