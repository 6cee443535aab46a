\* Three clients on two slots and one data centre: every stage of one client's
\* walk meets every stage of the other's.  A ClientHello of minute 2 is timely
\* from minute 0 to 4; the clock goes on until it can be forgotten.  The cache
\* holds one, so that it can be full.
CONSTANTS
  Clients = {c1, c2, c3}
  DCs = {d1}
  NoDC = NoDC
  Kinds <- MCKinds
  Configs <- MCConfigs
  MaxConnections = 2
  Hellos = {2, 3}
  Tolerance = 2
  Retention = 5
  CacheLimit = 1
  MaxTime = 5
SPECIFICATION FairSpec
INVARIANTS
  TcpSlotIsHeld
  HelloServedOnce
PROPERTIES
  ShutdownEnds
CHECK_DEADLOCK FALSE
