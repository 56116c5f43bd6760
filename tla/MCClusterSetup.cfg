\* A rolling upgrade from schema version 1 to 2, beside an operator's script and a
\* service that leaves the set-up to it.
SPECIFICATION Spec
CONSTANTS
  old = old
  new1 = new1
  new2 = new2
  manual = manual
  Workers = {old, new1, new2, manual}
  Version <- TwoReleases
  Upgraders = {new1, new2}
  Manual = {manual}
  OperatorVersion = 2
SYMMETRY Interchangeable
INVARIANTS
  NeverDynamic
  MappedOrSaid
