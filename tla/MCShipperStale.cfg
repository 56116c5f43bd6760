\* One file, one heir, and three deaths.
SPECIFICATION Spec
CONSTANTS
  Procs = {1, 2}
  Writers = {1}
  Inodes = {1}
  MaxLines = 2
  PerFile = 2
  Backups = 1
  BatchSize = 1
  Anonymous = {2}
  Poison = {}
  Stops = 3
  ReuseInodes = FALSE
  OpenRaces = FALSE
PROPERTIES
  ClaimContinues
