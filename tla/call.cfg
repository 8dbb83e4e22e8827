SPECIFICATION FairSpec
CONSTANTS
  max_retries = 3
  MaxOffers = 1
INVARIANTS GivesUpLast StartedIsNegotiated
PROPERTIES RestartEnds StopEnds
CHECK_DEADLOCK FALSE
