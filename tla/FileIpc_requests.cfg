CONSTANTS
  Requests = {r1, r2}
  Names = {r1, r2}
  Permits = {p1, p2}
  None = None
  MaxFaults = 1
SPECIFICATION MCSpec
INVARIANTS TypeOK RequestKept
PROPERTIES AnswerFinal RequestAnswered
CHECK_DEADLOCK FALSE
