\* Two updates of a service on either system, up to two faults.
CONSTANTS
  Systems = {"entware", "openwrt"}
  MaxUpdates = 2
  MaxVersion = 3
  MaxFaults = 2
SPECIFICATION Spec
INVARIANTS
  FilesMatch
  CompleteIsInstalled
  PayloadsAreOwned
PROPERTY UpdateEnds
CHECK_DEADLOCK FALSE
