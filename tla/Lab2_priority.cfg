SPECIFICATION SpecLab
CONSTANTS
  NPROC = 3
  NCPU = 1
  MaxPid = 3
  MaxSleep = 1
  TickWrap = 2
  MaxPrior = 2
  DefaultPrior = 1
PROPERTIES
  HighestFirst
  Aging
