CONSTANTS
  t1 = t1
  t2 = t2
  exe = exe
  libA = libA
  libB = libB
  Thread = {t1}
  Module <- MCModule
  Main = exe
  NoModule = NoModule
  Span <- MCSpan
  ArgvIsPath = TRUE
  MaxCalls = 2
  DirectGoals <- MCDirectGoals
SPECIFICATION Spec
PROPERTIES
  UsesLoadedModule
CHECK_DEADLOCK FALSE
