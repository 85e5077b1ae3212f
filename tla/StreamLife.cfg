SPECIFICATION FairSpec
CONSTANTS
  Timed = TRUE
CHECK_DEADLOCK FALSE
INVARIANTS
  TypeOK
  MonitorRunsIfWanted
  StreamInUse
  ReleasedAfterCalls
  NothingLeaks
PROPERTY CallsReturn
