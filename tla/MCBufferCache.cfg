CONSTANTS
  Thread = {t1, t2}
  Flusher = main
  Sectors = 3
  CacheSize = 2
  MaxOps = 3
SPECIFICATION FairSpec
INVARIANTS RightSector ReadsWritten FlushDurable
PROPERTY OperationsReturn
CHECK_DEADLOCK FALSE
