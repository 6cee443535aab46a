\* Each of the three levels is the scarce one for some of the packets.  No
\* symmetry, which is unsound for liveness.
CONSTANTS
  p1 = p1
  p2 = p2
  p3 = p3
  c1 = c1
  c2 = c2
  lane = lane
  process = process
  Packets <- ThreePackets
  Budgets <- AllBudgets
  Path <- TwoChannels
  Size <- Sizes
  MaxRequests <- Requests
  MaxBytes <- Bytes
SPECIFICATION FairSpec
INVARIANTS
  CountsArePermits
  BytesArePermits
  SleeperIsTold
  SomeoneMoves
PROPERTIES
  UndisturbedUploadIsServed
