\* A service that leaves the set-up to an operator starts before the operator has.
SPECIFICATION Spec
CONSTANTS
  old = old
  new1 = new1
  new2 = new2
  manual = manual
  Workers = {old, new1, new2, manual}
  Version <- TwoReleases
  Upgraders = {new1, new2}
  Manual = {manual}
  OperatorVersion = 2
SYMMETRY Interchangeable
INVARIANTS
  RefusesWithoutTemplate
