\* Handlers two deep, each level taking the lock up to twice.
CONSTANTS
  MaxLevel = 2
  MaxHold = 2
  Askers = {0}

SPECIFICATION FairSpec

INVARIANTS
  IInv
  UnlockAsserts
  DepthCountsHolders
  HeldMeansLocked
  FreeWhenUnused

PROPERTIES
  LockReturns
