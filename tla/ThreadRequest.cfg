CONSTANTS
  t1 = t1
  t2 = t2
  t3 = t3
  Thread <- MCThread
  NotifyUser <- OneNotifyUser
  Mortal <- OneMortal
  Result = {ok}
  NoResult = NoResult
  MaxRequests = 3
SPECIFICATION Spec
INVARIANTS
  NoStalePointer
  DeliveredOnce
  QuietAfterTerminate
PROPERTIES
  ImplementsRemoteExec
  WaitEnds
CHECK_DEADLOCK FALSE
