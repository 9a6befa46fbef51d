SPECIFICATION Spec
CONSTANTS
  c1 = c1
  c2 = c2
  c3 = c3
  global = global
  app = app
  Instance = {i1, i2}
  Change = {c1, c2, c3}
  Database = {global, app}
  DatabaseOf <- TwoDatabases
  MaxAdds = 2
  None = None
SYMMETRY Symmetry
INVARIANT NoChangeLost
