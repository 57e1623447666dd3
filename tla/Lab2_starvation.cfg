SPECIFICATION FairSpecLab
CONSTANTS
  NPROC = 3
  NCPU = 1
  MaxPid = 3
  MaxSleep = 0
  TickWrap = 1
  MaxPrior = 1
  DefaultPrior = 1
PROPERTIES
  EveryRunnableRuns
