SPECIFICATION Spec
CONSTANTS
  c1 = c1
  c2 = c2
  c3 = c3
  global = global
  app = app
  Instance = {i1, i2}
  Change = {c1, c2}
  Database = {global, app}
  DatabaseOf <- TwoDatabases
  MaxAdds = 1
  None = None
CONSTRAINT OneAtATime
SYMMETRY Symmetry
INVARIANTS AppliedLeaves CarefulLosesNothing CarefulRemovalStays CarefulHitsInstance CarefulAppliesShown
PROPERTY ReloadKeepsBasket
