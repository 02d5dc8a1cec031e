SPECIFICATION FairSpec
CONSTANTS
  t1 = t1  t2 = t2
  p1 = p1  p2 = p2
  n1 = n1  n2 = n2  n3 = n3
  a = a  b = b  c = c
  v1 = v1
  Task = {t1, t2}
  Process = {p1}
  Placements <- AllInOne
  MaxRuns = 1
  MaxFaults = 0
  Pools <- OnePool
  Limit <- FourSlots
  Lanes = 4
  Line = {n1, n2, n3}
  Label = {a, b, c}
  Stored <- TwoLines
  Proposals <- NoChanges
  Shareable = {n1}
  NoTask = NoTask
  NoProcess = NoProcess
  NoLabel = NoLabel
  Windows <- FourAndTwo
  MaxSignals = 1
  HostTask = {t1}
  NoSet = NoSet
CHECK_DEADLOCK FALSE
PROPERTIES
  RunsEnd
