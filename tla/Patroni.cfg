CONSTANTS
  m1 = m1
  m2 = m2
  gone = gone
  Ops <- MCOps
  Req = {r1, r2}
  User = {u1}
  UserOf <- OneOperator
  Postgres = TRUE
  Member = {m1, m2}
  Name = {m1, m2, gone}
  MaxElections = 1
  None = None
SPECIFICATION FairSpec
INVARIANTS TypeOK EffectsAreAudited SwitchoverFromDescribed
PROPERTY RequestEnds
CHECK_DEADLOCK FALSE
