\* One worker on a filesystem that reuses inode numbers.
SPECIFICATION Spec
CONSTANTS
  Procs = {1}
  Writers = {1}
  Inodes = {1, 2, 3}
  MaxLines = 3
  PerFile = 1
  Backups = 1
  BatchSize = 2
  Anonymous = {}
  Poison = {}
  Stops = 0
  ReuseInodes = TRUE
  OpenRaces = FALSE
INVARIANTS
  NothingNewBelowOffset
