CONSTANTS
  Width = 4
  Height = 3
  TabStop = 2
  Byte = 4
  Letters = {"a"}
SPECIFICATION FairSpec
INVARIANTS IInv CursorFollows
PROPERTIES ShowsWhatWasWritten WritesOnScreen PanicIsShown
