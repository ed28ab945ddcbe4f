CONSTANTS
  Proc = {p, q}
  None = None
  Workloads <- MCWorkloads
  Sectors = 8
  DirSlots = 1
  MaxInodes = 6
  MaxLength = 1
SPECIFICATION FsSpec
INVARIANTS ResultsTruthful TableSound
PROPERTIES NameSpace CallsReturn
CHECK_DEADLOCK FALSE
