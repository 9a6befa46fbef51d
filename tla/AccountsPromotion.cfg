SPECIFICATION Spec
CONSTANTS
  Account = {a1, a2}
  a1 = a1
  a2 = a2
  r1 = r1
  r2 = r2
  r3 = r3
  w1 = w1
  w2 = w2
  Request = {r1, r2, r3}
  Worker = {w1, w2}
  Deployment <- OnlyPromotions
  None = None
INVARIANT LocksKeepAnAdmin
CHECK_DEADLOCK FALSE
