SPECIFICATION Spec
CONSTANTS
  NPROC = 3
  NCPU = 1
  MaxPid = 3
  MaxSleep = 0
  TickWrap = 1
PROPERTIES
  BornUnkilled
