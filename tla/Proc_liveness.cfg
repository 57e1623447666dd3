SPECIFICATION FairSpec
CONSTANTS
  NPROC = 3
  NCPU = 1
  MaxPid = 3
  MaxSleep = 1
  TickWrap = 3
PROPERTIES
  EveryRunnableRuns
  KilledExits
  SleepsEnd
  InitReaps
