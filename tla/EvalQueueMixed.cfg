SPECIFICATION FairSpec
CONSTANTS
  Callers = {c1}
  Eval = Eval
  Nobody = Nobody
  Setters <- MixedSetters
  MaxSettings = 3
CHECK_DEADLOCK FALSE
INVARIANTS
  TypeOK
  QueuedSettingWins
  OnlyIntermediatesSkipped
  NoLostWakeup
PROPERTIES
  ImplementsSettingsLog
  CallReturns
  QueuedSettingSettles
