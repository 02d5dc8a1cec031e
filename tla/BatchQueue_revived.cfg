SPECIFICATION Spec
CONSTANTS
  a = a
  b = b
  p1 = p1
  p2 = p2
  p3 = p3
  Item = {a, b}
  StartItems = {a}
  Proc = {p1, p2, p3}
  None = None
  Overlap = FALSE
  MaxLines = 2
  MaxFailures = 1
CHECK_DEADLOCK FALSE
SYMMETRY Symmetry
INVARIANTS
  DropIsPermanent
