SPECIFICATION PoolsSpec
CONSTANTS
  Proc = {p1, p2, p3}
  Profile = {1}
  Database = {d1, d2}
  d1 = d1
  d2 = d2
  PoolId = {11, 12, 13, 14, 15, 16}
  LockId = {21, 22, 23, 24, 25}
  Unresponsive <- HostDown
  MaxGeneration = 2
  MetaConns = 3
  MaxVersion = 3
  None = None
  Setup <- Setups
INVARIANTS TypeOK OneOpenerPerKey NoLostPool CachedPoolIsOpen StoppedMeansClosed OutdatedOnlyByLateGet RecordsAreOfProfile
PROPERTIES StalePoolNeverCached WaitingIsServed
