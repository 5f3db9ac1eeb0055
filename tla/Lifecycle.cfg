SPECIFICATION Spec
CONSTANTS
  t1 = t1
  t2 = t2
  Thread <- MCThread
  InfoCells = 6
  StackCells = 4
  MaxFaults = 2
  Logger <- MCLogger
  NoLogger = NoLogger
  MaxLoggers = 22
  LinuxSignals <- MCSignals
  FlagSets <- MCFlagSets
  MaxCycles = 2
SYMMETRY Symmetry
INVARIANTS ReportsWhole UpMeansComplete HandlersRestored CrashesOnlyAtTheEdges LoggersAccounted
CHECK_DEADLOCK FALSE
