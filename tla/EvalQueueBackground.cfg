SPECIFICATION Spec
CONSTANTS
  Callers = {c1, c2}
  Eval = Eval
  Nobody = Nobody
  Setters <- BackgroundSetters
  MaxSettings = 3
CHECK_DEADLOCK FALSE
INVARIANTS
  InOrder
  NewestSettingWins
  DrainedBeforeDirect
  EvalThreadLifetime
