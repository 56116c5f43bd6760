\* The event loop and a thread that emits, two calls, a cache and a memo of
\* two or three entries, a slow path for one key.
SPECIFICATION Spec
CONSTANTS
  Threads = {t1, t2}
  t1 = t1
  t2 = t2
  Keys <- MCKeys
  Denylist = {"password"}
  KEY_CACHE_MAX = 2
  COLD_KEY_BUDGET = 1
  MEMO_MAX_CHARS = 4
  Digest = Digest
  None = None
  Budgets = {None, 1}
  Calls = 2
  StandIns = 2
SYMMETRY ThreadsAlike
INVARIANTS
  KeysStayApart
  RefusedOnlyPastBudget
CHECK_DEADLOCK FALSE
