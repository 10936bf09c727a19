CONSTANTS
  Requests = {r1}
  Names = {r1}
  Permits = {p1, p2}
  None = None
  MaxFaults = 0
SPECIFICATION Spec
INVARIANTS ProcessedOnce
CHECK_DEADLOCK FALSE
