SPECIFICATION SpecLab
CONSTANTS
  NPROC = 3
  NCPU = 1
  MaxPid = 5
  MaxSleep = 0
  TickWrap = 1
  Levels = 2
INVARIANTS
  StackSafe
  WaitpidOwnChild
PROPERTIES
  BestChosen
