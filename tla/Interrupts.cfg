\* The timer, both drives, the first line of the slave, and the line that
\* spurious interrupts of the master take.
CONSTANTS
  Sources = {0, 7, 8, 14, 15}

SPECIFICATION FairSpec

INVARIANTS
  IInv
  EnabledMeansReady
  RoutineOfLine
  NothingLeftInService
  NoNesting

PROPERTIES
  ArrivesAtStub
  EndsOnlyItsOwn
  StopIsFinal
  RequestsAnswered
