CONSTANTS
  MaxTid = 4
  Status = {5}
  proc1 = proc1  proc2 = proc2
  PGSIZE = 2
  PtSize = 2
  UserPages = 6
  Word = 16
  Jobs <- MCJobs
SPECIFICATION MCSpec
INVARIANTS RefCounts NoLeak FramesAccounted ActiveDirectory ImageLoaded
PROPERTIES WaitContract ExecContract Progress
CHECK_DEADLOCK FALSE
