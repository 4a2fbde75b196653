\* The handlers ask, too, whether the lock is locked.
CONSTANTS
  MaxLevel = 1
  MaxHold = 1
  Askers = {0, 1}

SPECIFICATION Spec

INVARIANT LockedMeansDepth
