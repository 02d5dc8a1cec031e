SPECIFICATION FairSpec
CONSTANTS
  MaxItems = 2
  InitItems = 1
  Growing = TRUE
  Group <- OneGroup
  Cost <- SomeCosts
  Rank <- SomeRanks
  Stages <- LateWithoutLlm
  Faulty <- FirstItem
  Ranks = {1}
  d1 = d1
  d2 = d2
  a1 = a1
  l1 = l1
  l2 = l2
  Downloaders = {d1}
  Recognisers = {a1}
  LlmWorkers = {l1}
  Intake = intake
  AsrQueueSize = 1
  RetryFailed = 1
  UnsettledLimit = 1
  MaxActions = 1
  MaxLogFailures = 0
  Interruptible = TRUE
INVARIANTS
  DropExcludesWork
  AsrQueueBounded
  IntakeClosesDrained
PROPERTIES
  FollowsLifecycle
  CountedVerdictsFinal
  BatchReturns
