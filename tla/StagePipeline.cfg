SPECIFICATION FairSpec
CONSTANTS
  NStages = 3
  NParts = 2
  NPrompt = 2
  NPos = 3
  MaxLost = 1
  MaxDups = 1
  MaxEarly = 1
INVARIANTS HiddenWhole AnswersBounded
PROPERTY ImplementsFairSingleBoard
