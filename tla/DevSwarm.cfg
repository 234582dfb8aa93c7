\* Seven command lines, costs of zero or one coin a call, two turns of the tool loop.
SPECIFICATION Spec
CONSTANTS
  Configs <- TheConfigs
  Prices = {0, 1}
  MaxRetries = 2
  MaxSteps = 2
  HopLimit = 64
  None = None
INVARIANTS ReviewedThenTested CoderTold LabelTellsWhy
PROPERTIES EveryRunEnds
CHECK_DEADLOCK FALSE
