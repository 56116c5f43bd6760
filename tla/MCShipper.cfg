\* Two workers, files that hold a line each, one rotation kept, one death or close().
SPECIFICATION Spec
CONSTANTS
  Procs = {1, 2}
  Writers = {1}
  Inodes = {1, 2, 3}
  MaxLines = 3
  PerFile = 1
  Backups = 1
  BatchSize = 2
  Anonymous = {1}
  Poison = {2}
  Stops = 1
  ReuseInodes = FALSE
  OpenRaces = FALSE
INVARIANTS
  NothingSkipped
  LostIsNotStored
