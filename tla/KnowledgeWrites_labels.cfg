SPECIFICATION UpdatesSpec
CONSTANTS
  t1 = t1  t2 = t2
  p1 = p1
  n1 = n1  n2 = n2  n3 = n3
  a = a  b = b  c = c
  Task = {t1, t2}
  Process = {p1}
  Placements <- Together
  MaxRuns = 2
  MaxFaults = 1
  Line = {n1, n2, n3}
  Label = {a, b, c}
  Stored <- TwoLines
  Proposals <- OneAddsToTheOthers
  Shareable = {n1, n2}
  NoTask = NoTask
  NoProcess = NoProcess
  NoLabel = NoLabel
CHECK_DEADLOCK FALSE
INVARIANT
  LabelsUnique
