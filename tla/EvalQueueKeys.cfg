SPECIFICATION Spec
CONSTANTS
  Callers = {c1}
  Eval = Eval
  Nobody = Nobody
  Setters <- KeyedSetters
  MaxSettings = 3
CHECK_DEADLOCK FALSE
INVARIANTS
  OnlyIntermediatesSkipped
