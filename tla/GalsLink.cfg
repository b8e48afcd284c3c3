SPECIFICATION Spec
CONSTANTS
  NStages = 2
  D = 2
  NPos = 2
  Echo = {4}
  MaxDamaged = 2
  MaxEarly = 0
PROPERTY ImplementsSingleBoard
