CONSTANTS
  t1 = t1
  t2 = t2
  t3 = t3
  t4 = t4
  Thread <- MCThread
  MaxThreads = 2
  MaxCreates = 1
  LateReports = FALSE
  NoThread = NoThread
  Shares = {48, 50}
  HeaderSize = 40
SPECIFICATION Spec
SYMMETRY Symmetry
INVARIANTS
  TypeOK
  SlotsAccounted
  
  
PROPERTIES
  ImplementsPool
CHECK_DEADLOCK FALSE
