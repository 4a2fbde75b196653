\* The hour changes in the afternoon; 12 or 24 hours, BCD or binary.
CONSTANTS
  Clock <- Evening
  Modes <- AllModes

SPECIFICATION FairSpec

INVARIANTS
  FieldsFresh

PROPERTIES
  CallReturns
