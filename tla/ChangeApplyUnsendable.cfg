SPECIFICATION Spec
CONSTANTS
  Request = {r1}
  User = {u1}
  UserOf <- OneOperator
  Plans <- UnsendablePlans
  Breaks = FALSE
  Kills = FALSE
  Deletes = FALSE
  Postgres = FALSE
  None = None
SYMMETRY Symmetry
INVARIANT RollsEverythingBack
CHECK_DEADLOCK FALSE
