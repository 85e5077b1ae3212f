SPECIFICATION FairSpec
CONSTANTS
  Readers = {r1, r2}
  MaxChanges = 3
CHECK_DEADLOCK FALSE
INVARIANT TypeOK
PROPERTIES
  NeverBackwards
  ChangesReachCache
  DestructorReturns
  OverlayAnswers
