SPECIFICATION Spec
CONSTANTS
  NumPorts = 2
  Background = FALSE
  MaxTransfer = 2
  MaxTime = 6
  MaxRate = 2
CHECK_DEADLOCK FALSE
INVARIANTS
  TypeOK
  TimeIsKnown
  RateIsTold
PROPERTY LabelsAccompanyElements
