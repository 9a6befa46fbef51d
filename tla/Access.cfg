CONSTANTS
  alice = alice
  team = team
  lead = lead
  PgDatabaseOwner = pg_database_owner
  PgReadAllData = pg_read_all_data
  PUBLIC = PUBLIC
  Role <- MCRole
  Member <- MCMember
  Catalogs <- MCCatalogs
  Subject = {alice}
  MaxChanges = 1
SPECIFICATION Spec
INVARIANTS ClosureIsInheritance Explained HiddenRowsAreHidden
