CONSTANTS
  Thread = {t1, t2, t3, t4}
  MaxOps = 2
  Grower = {t1, t2}
  Files = 2
  Sectors = 8
  NUM_POINTERS = 2
  BLOCK_SECTOR_SIZE = 2
  Ends = {0, 3, 5}
  FirstLength = 2
  MaxCalls = 3
  None = None
SPECIFICATION MCSpec
INVARIANTS Exclusion NoLostWakeup BytesHaveSectors NoSharedSector
PROPERTIES EveryoneGetsOut ImplementsRWLock OperationsReturn
CHECK_DEADLOCK FALSE
