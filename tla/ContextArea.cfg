CONSTANTS
  t1 = t1
  t2 = t2
  t3 = t3
  Writer <- MCWriter
  AreaSize = 5
  MaxAreaSize = 6
  RecLen = {1, 2}
  StrayNumber = {0, 1, 2, 3, 4, 5, 6}
  MaxCalls = 1
SPECIFICATION ContextSpec
INVARIANTS
  SpaceAccounted
  NeverOversubscribed
  TiledUntilRace
  KeptUntilRace
  ReadsInOrder
PROPERTIES
  ReaderFinishes
CHECK_DEADLOCK FALSE
