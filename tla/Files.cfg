SPECIFICATION FairSpec
CONSTANTS
  Process = {p1, p2}
  Pipe = {q1}
  Byte = {0, 1}
  PIPESIZE = 2
  Wrap = 4
  Writes <- WriteSet
  Counts <- CountSet
  NoRequest = NoRequest
  INPUT_BUF = 3
  InputWrap = 6
  NINODE = 2
  Inum <- Inums
  Name = {a, b}
  None = None
  NFILE = 3
  BSIZE = 2
  NDIRECT = 1
  NINDIRECT = 2
  LOGSIZE = 6
  DataBlock <- DataBlocks
  FileCounts = {3}
  NOFILE = 2
  ConsoleCounts = {2}
INVARIANTS
  TypeOK
  RefCounts
  NamesAndLinks
  OrderAtRest
  OnlyRacingPutsLeak
  OnlyDirectoryPutsDeadlock
  NoStrandedSleeper
PROPERTIES
  PipesAreChannels
  HopelessCallsEnd
  ConsoleDelivers
CHECK_DEADLOCK FALSE
