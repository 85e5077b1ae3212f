SPECIFICATION FairSpec
CONSTANTS
  Callers = {c1}
  Eval = Eval
  Nobody = Nobody
  Setters <- SynchronousSetters
  MaxSettings = 1
CHECK_DEADLOCK FALSE
PROPERTIES
  DestructorReturns
