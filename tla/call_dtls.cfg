SPECIFICATION FairSpec
CONSTANTS
  max_retries = 3
  MaxOffers = 0
PROPERTIES DtlsRestarts
CHECK_DEADLOCK FALSE
