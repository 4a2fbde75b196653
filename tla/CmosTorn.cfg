\* A year ends while the date is read; the registers need no conversion.
CONSTANTS
  Clock <- NewYear
  Modes <- Binary24

SPECIFICATION Spec

INVARIANT OneMoment
