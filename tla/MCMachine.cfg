CONSTANTS
  reader1 = reader1  reader2 = reader2
  writer1 = writer1  writer2 = writer2
  Readers = {reader1, reader2}
  Writers = {writer1, writer2}
  None = None
  BufSize = 3
  Loads <- MCLoads
  Users = {Main, user}
  Main = Main  Idle = Idle  A = A  B = B  C = C  D = D  E = E
  palloc_lock = palloc_lock  tid_lock = tid_lock  file_lock = file_lock
  made = made  go = go  completion_wait = completion_wait
  Thread <- MCThread
  Semaphore <- MCSemaphore
  InitialValue <- MCInitialValue
  Lock <- MCLock
  Workloads <- MCWorkloads
  TIME_SLICE = 2
  NoThread = NoThread
  Channels <- MCChannels
  Limit = 8
  MaxDepth = 3
  Word = 16
SPECIFICATION MCSpec
INVARIANTS ListDiscipline NoLostWakeup LockToken StopsOnlyByReap
  CharactersInOrder BlocksAreArrays
PROPERTIES PagesConserved ThreadsExit TerminalProgress BootsAndServes
CHECK_DEADLOCK FALSE
