\* Noon in 2018 on a 12-hour clock.
CONSTANTS
  Clock <- Noon
  Modes <- Bcd12

SPECIFICATION Spec

INVARIANT CalendarUnits
