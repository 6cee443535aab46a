\* Three requests: one whose timeout marks the connection, one that keeps it
\* open, one that waits for its retirement.  Two connections: one replaced while
\* clones of it are still held, and its successor.  No symmetry, which is unsound
\* for liveness.  A settled lane has nothing left to do, so its behaviours may
\* stop.
CONSTANTS
  Requests = {r1, r2, r3}
  NoRequest = NoRequest
  MaxGen = 2
SPECIFICATION FairSpec
INVARIANTS
  WaiterIsOwedWakeup
  DriversAreOwned
PROPERTIES
  ImplementsConnectionLife
  WaiterProceeds
CHECK_DEADLOCK FALSE
