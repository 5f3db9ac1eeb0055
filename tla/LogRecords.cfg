SPECIFICATION Spec
CONSTANTS
  t1 = t1
  short = short
  long = long
  exact = exact
  oversize = oversize
  Thread <- MCThread
  Message <- MCMessage
  Length <- MCLength
  Leftover = leftover
  FixedSize = 2
  MaxSize = 8
  MaxNest = 3
  MaxLogged = 5
  MaxTerms = 2
INVARIANTS DeliversIntact ChainBounded FreedWhenGone
CHECK_DEADLOCK FALSE
