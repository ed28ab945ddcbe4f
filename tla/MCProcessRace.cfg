CONSTANTS
  MaxTid = 3
  Status = {5}
  proc1 = proc1  proc2 = proc2
  PGSIZE = 2
  PtSize = 2
  UserPages = 6
  Word = 16
  Jobs <- Refused
SPECIFICATION MCSpec
INVARIANT NoFreedWaitStatus
CHECK_DEADLOCK FALSE
