SPECIFICATION ChainSpec
CONSTANTS
  NumInputs = 3
  PeriodNum = 10
  PeriodDen = 1
  Joined = FALSE
  MaxTick = 3
  DropSizes = {1, 2}
  Steps = 1
  Chances = {0, 1, 2}
CHECK_DEADLOCK FALSE
INVARIANTS
  DropperTypeOK
  TimesAreRight
  NothingDroppedInVain
PROPERTIES
  ImplementsAlignedOutput
  InputsAreUsedUp
  DropperGoesOn
