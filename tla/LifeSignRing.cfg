CONSTANTS
  MaxThreads = 2
  ThreadAreaSize = 28
  HeaderSize = 8
  RecLen = {3, 4}
  MaxWrites = 3
  MaxTakes = 2
  Shares = {27, 28}
SPECIFICATION Spec
INVARIANTS
  ReadsWhatWasWritten
  SpoiledOnlyPastRoom
CHECK_DEADLOCK FALSE
