CONSTANTS
  t1 = t1
  t2 = t2
  exe = exe
  libA = libA
  libB = libB
  Thread <- MCThread
  Module <- MCModule
  Main = exe
  NoModule = NoModule
  Span <- MCSpan
  ArgvIsPath = TRUE
  MaxCalls = 1
  DirectGoals <- MCDirectGoals
SPECIFICATION Spec
INVARIANTS
  PreparedBeforeUse
  AnswersFit
  TraversalStable
PROPERTIES
  CallsEnd
CHECK_DEADLOCK FALSE
