SPECIFICATION FairSpec
CONSTANTS
  MAX_STOP_RETRY = 5
  Faults = {"lost", "late"}
  MaxJogs = 2
INVARIANTS StopsBounded
PROPERTIES MoveEnds
CHECK_DEADLOCK FALSE
