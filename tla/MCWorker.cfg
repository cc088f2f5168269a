SPECIFICATION MCFairSpec
CONSTANTS
  Threads = {t1, t2, t3, t4}
  MaxPermits = 5
  MaxTasks = 6
INVARIANTS
  CountersAgree
  NoLostWakeup
  NoTaskLost
  CloseFlushes
  FileIsComplete
PROPERTIES
  ImplementsSemaphore
  TasksAreRun
CHECK_DEADLOCK FALSE
