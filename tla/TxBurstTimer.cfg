SPECIFICATION FairSpec
CONSTANTS
  Periods = {5, 7}
  PeriodDen = 3
  TimeDeltas = {0, 2}
  MaxTimeout = 3
  MaxElems = 4
  MaxTime = 4
  MaxSyncs = 2
CHECK_DEADLOCK FALSE
INVARIANT BurstsDoNotOverlap
PROPERTY InputIsForwarded
