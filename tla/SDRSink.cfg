SPECIFICATION FairSpec
CONSTANTS
  NumChannels = 1
  Width = 1
  MaxElems = 4
  MaxPackets = 1
CHECK_DEADLOCK FALSE
INVARIANTS
  TimesAreMet
  EndsAreMet
PROPERTIES
  InputIsUsedUp
