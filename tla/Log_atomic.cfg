SPECIFICATION Spec
CONSTANTS
  MAXOPBLOCKS = 1
  LOGSIZE = 2
  NLOG = 3
  NHOME = 3
  Data = {0, 1}
  Zero = 0
  Absent = Absent
  Caller = {p1, p2, p3}
SYMMETRY Symmetry
INVARIANTS
  TypeOK
  LogFits
  CommitAlone
  NoStrandedWaiter
PROPERTIES
  AtomicGroups
