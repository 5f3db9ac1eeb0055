SPECIFICATION DwarfSpec
CONSTANTS
  GroupBits = 2
  LongBits = 12
  IntBits = 6
  Infos <- MCInfos
  Addresses <- MCAddresses
INVARIANTS UnitRight ProgramOfUnit LineRight
CHECK_DEADLOCK FALSE
