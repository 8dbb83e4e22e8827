SPECIFICATION FairSpec
CONSTANTS
  Presets = {0, 1}
  Seqs <- MCSeqs
  MaxLen = 3
  Spots <- MCSpots
  Tours = {t1, t2}
  NoTour = NoTour
  Stored <- MCStored
  Asked <- MCAsked
  MaxAsks = 2
  WaitLimit = 1
PROPERTIES OneTour VisitsAsked StopReturns AnalysisReturns
CHECK_DEADLOCK FALSE
