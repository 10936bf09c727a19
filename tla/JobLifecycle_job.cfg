CONSTANT None = None
SPECIFICATION FairSpec
INVARIANTS TypeOK HandlesOpenInUse NoOrphan ExitCodeHonest
PROPERTIES CancelReleases EndedStops Answered WaitEnds
CHECK_DEADLOCK FALSE
