SPECIFICATION FairSpec
CONSTANTS
  NumInputs = 2
  PeriodNum = 50
  PeriodDen = 3
  Joined = FALSE
  MaxTick = 4
CHECK_DEADLOCK FALSE
PROPERTY InputsAreUsedUp
