SPECIFICATION FairSpec
CONSTANTS
  NStages = 1
  D = 1
  NPos = 1
  Echo = {3}
  MaxDamaged = 1
  MaxEarly = 0
PROPERTY EveryPositionAnswered
