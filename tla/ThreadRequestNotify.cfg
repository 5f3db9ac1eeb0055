CONSTANTS
  t1 = t1
  t2 = t2
  t3 = t3
  Thread <- MCThread
  NotifyUser <- TwoNotifyUsers
  Mortal <- NoMortal
  Result = {ok}
  NoResult = NoResult
  MaxRequests = 2
SPECIFICATION Spec
INVARIANT NoHandlerDeadlock
CHECK_DEADLOCK FALSE
