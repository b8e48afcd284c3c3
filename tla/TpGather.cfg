SPECIFICATION FairSpec
CONSTANTS
  NRanks = 2
  PMAX = 2
  Parts <- UnevenParts
  NGathers = 3
  VecAt <- AlternateVecs
  MaxLost = 2
INVARIANTS AskAnswerable PartsAreFresh WholeVectors
PROPERTY ImplementsFairRendezvous
