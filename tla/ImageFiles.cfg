SPECIFICATION Spec
CONSTANTS
  BufferSize = 3
  MaxFaults = 2
  MaxCalls = 2
  ElfFiles <- MCElfFiles
  PEFiles <- MCPEFiles
  DebugNames <- MCDebugNames
  Addresses <- MCAddresses
CHECK_DEADLOCK FALSE
INVARIANTS BufferMirrorsFile SectionsIntact SymbolsRight
