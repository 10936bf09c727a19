CONSTANTS
  Threads = {t1}
  Cleaner = cleaner
  Closer = closer
  Sweepers = {cleaner}
  Handles = {h1, h2}
  None = None
  NewStates <- FewNewStates
  IdSpace = 3
  MaxConcurrentJobs = 2
  IdleDuration = 1
  QuietDuration = 1
  MaxTime = 1
  ClockMoves <- Forward
SPECIFICATION FairSpec
INVARIANTS TypeOK TerminalIffStamped
PROPERTIES ImplementsRegistry EndedIsReaped
CHECK_DEADLOCK FALSE
