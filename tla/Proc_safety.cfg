SPECIFICATION Spec
CONSTANTS
  NPROC = 3
  NCPU = 2
  MaxPid = 3
  MaxSleep = 2
  TickWrap = 3
INVARIANTS
  TypeOK
  OneCpuPerProc
  StackSafe
  SchedEntry
  NoLostTick
  NoMissedChild
  ParentsLive
