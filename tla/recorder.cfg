SPECIFICATION FairSpec
CONSTANTS
  Cams = {RGB, Thermal}
  First = RGB
  max_restart_attempts = 1
INVARIANTS NoneLeft
PROPERTIES Recovers
CHECK_DEADLOCK FALSE
