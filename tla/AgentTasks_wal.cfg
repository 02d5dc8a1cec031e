SPECIFICATION Spec
CHECK_DEADLOCK FALSE
CONSTANTS
  Task = {1, 2}
  InitTasks <- FirstOnly
  MayBeExternal = {2}
  Deps <- SecondNeedsFirst
  w1 = w1
  w2 = w2
  w3 = w3
  Worker = {w1, w2}
  Joiners = {w2}
  MaxWorkers = 2
  doc = doc
  Block = {doc}
  Blocks <- FirstReads
  AssignmentScope = TRUE
  x = x
  y = y
  Answer = {x}
  r1 = r1
  Request = {r1}
  MaxSubmits = 2
  BlockedRequeues = 1
  MaxRetirements = 1
  MaxFaults = 1
  NoWorker = NoWorker
  NoRequest = NoRequest
  NoAnswer = NoAnswer
  NoCall = NoCall
  NoWal = NoWal
  None = None
INVARIANTS
  WalCanBeFinished
