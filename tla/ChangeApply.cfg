SPECIFICATION Spec
CONSTANTS
  Request = {r1, r2}
  User = {u1}
  UserOf <- OneOperator
  Plans <- RegularPlans
  Breaks = TRUE
  Kills = TRUE
  Deletes = TRUE
  Postgres = TRUE
  None = None
SYMMETRY Symmetry
INVARIANTS TypeOK AppliedIsAudited AuditCountsEffects
PROPERTY AllOrNothing
CHECK_DEADLOCK FALSE
