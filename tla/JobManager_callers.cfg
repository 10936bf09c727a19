CONSTANTS
  Threads = {t1, t2}
  Cleaner = cleaner
  Closer = closer
  Sweepers = {closer}
  Handles = {h1, h2, h3, h4}
  None = None
  NewStates = {"Starting"}
  IdSpace = 4
  MaxConcurrentJobs = 1
  IdleDuration = 1
  QuietDuration = 1
  MaxTime = 0
  ClockMoves <- Forward
SYMMETRY Symmetry
SPECIFICATION Spec
INVARIANTS CapBound UniqueIds CancelledHasEnded
PROPERTIES ShutdownMissesNone
CHECK_DEADLOCK FALSE
