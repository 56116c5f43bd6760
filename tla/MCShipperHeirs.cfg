\* Three workers: two may adopt what the third leaves, in a file of two lines.
SPECIFICATION FairSpec
CONSTANTS
  Procs = {1, 2, 3}
  Writers = {1}
  Inodes = {1}
  MaxLines = 2
  PerFile = 2
  Backups = 1
  BatchSize = 1
  Anonymous = {2}
  Poison = {1}
  Stops = 1
  ReuseInodes = FALSE
  OpenRaces = FALSE
INVARIANTS
  SentOnce
PROPERTIES
  EveryLineShips
