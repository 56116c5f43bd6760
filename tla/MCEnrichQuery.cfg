\* The rebuilt query string without the exception for rewritten names: violated.
SPECIFICATION Spec
CONSTANTS
  Digest = Digest
  None = None
  Denylist = {"password"}
  KEY_CACHE_MAX = 3
  COLD_KEY_BUDGET = 1
  MEMO_MAX_CHARS = 9
  DEPTH_LIMIT = 4
  Requests <- MCRequests
  Bags <- MCBags
  Targets <- MCTargets
  MaxBodyBytes = 64
  MaxQueryBytes = 64
  MaxNodes = 8
  MaxDistinctKeys = 3
  MaxParts = 2
  MaxScrubBytes = 20
  CaptureText = TRUE
  MaxUnparsed = 20
  MaxRoles = 2
  MaxDocs = 1
  MAX_BAG_KEYS = 3
  MAX_BAG_NODES = 4
  MAX_DIFF = 2
  Trusted = {"proxy", "proxy2"}
  Invalid = {"junk"}
INVARIANT UrlShowsNothingDenied
CHECK_DEADLOCK FALSE
