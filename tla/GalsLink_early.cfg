SPECIFICATION Spec
CONSTANTS
  NStages = 2
  D = 1
  NPos = 2
  Echo = {}
  MaxDamaged = 0
  MaxEarly = 1
PROPERTY ImplementsSingleBoard
