\* One worker, closed once.
SPECIFICATION Spec
CONSTANTS
  Procs = {1}
  Writers = {1}
  Inodes = {1}
  MaxLines = 1
  PerFile = 1
  Backups = 1
  BatchSize = 2
  Anonymous = {}
  Poison = {}
  Stops = 1
  ReuseInodes = FALSE
  OpenRaces = FALSE
INVARIANTS
  DrainedOnClose
