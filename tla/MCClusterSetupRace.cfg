\* Two workers of different releases, none told to upgrade, start at the same time.
SPECIFICATION Spec
CONSTANTS
  old = old
  new1 = new1
  new2 = new2
  manual = manual
  Workers = {old, new1}
  Version <- OneOfEach
  Upgraders = {}
  Manual = {}
  OperatorVersion = 2
PROPERTIES
  OneSchemaPerDataset
