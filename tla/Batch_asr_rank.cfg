SPECIFICATION Spec
CONSTANTS
  MaxItems = 2
  InitItems = 2
  Growing = TRUE
  Group <- OneGroup
  Cost <- SomeCosts
  Rank <- SomeRanks
  Stages <- AllStages
  Faulty <- NoItems
  Ranks = {1}
  d1 = d1
  d2 = d2
  a1 = a1
  l1 = l1
  l2 = l2
  Downloaders = {d1, d2}
  Recognisers = {a1}
  LlmWorkers = {l1}
  Intake = intake
  AsrQueueSize = 2
  RetryFailed = 1
  UnsettledLimit = 2
  MaxActions = 1
  MaxLogFailures = 0
  Interruptible = FALSE
PROPERTIES
  AsrTakesHighestRank
