SPECIFICATION FairSpec
CONSTANTS
  t1 = t1  t2 = t2
  p1 = p1  p2 = p2
  n1 = n1  n2 = n2  n3 = n3
  a = a  b = b  c = c
  v1 = v1
  Task = {t1, t2}
  Process = {p1, p2}
  Placements <- TogetherOrApart
  MaxRuns = 2
  MaxFaults = 1
  Pools <- OnePool
  Limit <- TwoSlots
  Lanes = 2
  Line = {n1, n2, n3}
  Label = {a, b, c}
  Stored <- TwoLines
  Proposals <- RivalProposals
  Shareable = {n1}
  NoTask = NoTask
  NoProcess = NoProcess
  NoLabel = NoLabel
  Windows <- TwoAndOne
  MaxSignals = 1
  HostTask = {t1}
  NoSet = NoSet
CHECK_DEADLOCK FALSE
INVARIANTS
  SlotsAccounted
  WindowsKeepEntries
  OneWriter
  StoreStaysSound
  AppliedOnce
  LosersLoseOnlyOps
PROPERTIES
  KeepsSnapshots
  RunsEnd
