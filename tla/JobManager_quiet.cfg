CONSTANTS
  Threads = {t1}
  Cleaner = cleaner
  Closer = closer
  Sweepers = {cleaner}
  Handles = {h1, h2}
  None = None
  NewStates <- FewNewStates
  IdSpace = 3
  MaxConcurrentJobs = 2
  IdleDuration = 2
  QuietDuration = 1
  MaxTime = 1
  ClockMoves <- Forward
SPECIFICATION Spec
PROPERTIES CleansUpOnlyIdleOrCompleted
CHECK_DEADLOCK FALSE
