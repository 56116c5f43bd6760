\* The shipper's last pass comes before the sink's last flush.
SPECIFICATION Spec
CONSTANTS
  None = None
  outer = outer
  inner = inner
  Stack <- MCStack
  Mounted = {sub}
  Ships = {outer}
  Docs = {d1, d2}
  MaxFaults = 0
SYMMETRY SomeOrder
INVARIANTS
  GracefulShutdownShipsAll
CHECK_DEADLOCK FALSE
