SPECIFICATION Spec
CONSTANTS
  Process = {p1, p2}
  TOP = 5
  PROGRAM = 1
  MaxStack = 2
  SHM = 1
  MaxRefs = 2
  Id = {0, 1}
  None = None
SYMMETRY Symmetry
INVARIANTS
  FramesAccounted
  SizeIsMapped
  PanicsExplained
CHECK_DEADLOCK FALSE
