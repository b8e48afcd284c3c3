SPECIFICATION FairSpec
CONSTANTS
  NStages = 2
  NParts = 1
  NPrompt = 1
  NPos = 2
  MaxLost = 0
  MaxDups = 0
  MaxEarly = 1
PROPERTY SentAgainOnlyWithoutAnswer
