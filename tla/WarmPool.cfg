\* Two clients; a direct bucket of two sockets that the first client creates (a
\* test data centre), a configured Worker bucket of one and a Worker bucket that
\* never exists (a target with a direct route).  Each of the first two can
\* keep the task busy while the other waits.
CONSTANTS
  DirectKeys = {1}
  WorkerKeys = {2, 3}
  Configured = {2}
  PoolSize = 2
  Users = {c1, c2}
  NoKey = NoKey
SPECIFICATION PoolFairSpec
INVARIANTS
  RefillIsOwed
PROPERTIES
  MissingIsRefilled
