\* Two concurrent requests and one audited task.
SPECIFICATION Spec
CONSTANTS
  None = None
  r1 = r1
  r2 = r2
  Requests = {r1, r2}
  Tasks = {t1}
  Cap = 2
  Excluded <- MCExcluded
  Mixes <- MCMixes
INVARIANTS
  OneDocument
  CaptureIsTrue
  OutcomeTellsWhatHappened
  OwnAnnotations
CHECK_DEADLOCK FALSE
