CONSTANTS
  Instances = {i1, i2}
  Jobs = {j1}
  None = None
  MaxConnections = 1
  Workers = 1
SPECIFICATION FairSpec
INVARIANTS TypeOK PermitsKept SendersServed
PROPERTIES StopEnds CtrlCEnds ConnectedIsServed
CHECK_DEADLOCK FALSE
