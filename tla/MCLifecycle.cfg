\* Two middlewares on one application, one on a mounted one, three documents.
SPECIFICATION Spec
CONSTANTS
  None = None
  outer = outer
  inner = inner
  Stack <- MCStack
  Mounted = {sub}
  Ships = {outer}
  Docs = {d1, d2, d3}
  MaxFaults = 1
SYMMETRY SomeOrder
INVARIANTS
  CountedOnce
  EmitFindsASink
  TornDownInOrder
CHECK_DEADLOCK FALSE
