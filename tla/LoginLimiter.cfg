SPECIFICATION LimiterSpec
CONSTANTS
  Ip = {i1}
  User = {u1, u2}
  Login = {r1, r2}
  MaxAttempts = 2
  Window = 3
  Lockout = 2
  Second = 2
  MaxNow = 7
  Absent = Absent
SYMMETRY Symmetry
INVARIANTS GuessesBounded RetryAfterSuffices
PROPERTIES IpLockKept OnlyRecentBuckets
CHECK_DEADLOCK FALSE
