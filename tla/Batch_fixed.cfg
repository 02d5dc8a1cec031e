SPECIFICATION Spec
CONSTANTS
  MaxItems = 3
  InitItems = 3
  Growing = FALSE
  Group <- OneGroup
  Cost <- SomeCosts
  Rank <- SomeRanks
  Stages <- AllStages
  Faulty <- FirstItem
  Ranks = {}
  d1 = d1
  d2 = d2
  a1 = a1
  l1 = l1
  l2 = l2
  Downloaders = {d1, d2}
  Recognisers = {a1}
  LlmWorkers = {l1, l2}
  Intake = intake
  AsrQueueSize = 1
  RetryFailed = 1
  UnsettledLimit = 2
  MaxActions = 0
  MaxLogFailures = 1
  Interruptible = TRUE
SYMMETRY Symmetry
CHECK_DEADLOCK FALSE
INVARIANTS
  TypeOK
  NothingLost
  StageMarksRunning
  GroupInOrder
  RecognisersLeaveLast
  ReturnsSettled
PROPERTIES
  StopLetsOneIn
