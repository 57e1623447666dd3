SPECIFICATION FairSpec
CONSTANTS
  Buffer = {b1, b2}
  Block <- Blocks
  Data = {v0, v1}
  NoBlock = 0
  Process = {p1, p2}
  Nobody = nobody
  Zero = v0
  MaxHeld = 2
  MaxDirty = 1
INVARIANTS
  TypeOK
  NoTwoCopies
  CleanIsStored
  ServedInOrder
PROPERTIES
  BlockStoreSpec
  DiskAnswers
CHECK_DEADLOCK FALSE
