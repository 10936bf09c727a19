CONSTANT Launches = {l1, l2}
SPECIFICATION Spec
INVARIANTS TypeOK OwnedOnce StreamsEnd FailureIsClean DiesWithJob
CHECK_DEADLOCK FALSE
