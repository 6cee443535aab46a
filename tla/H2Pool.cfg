\* Two openers and three hosts on two slots: a set-up of the third host has to
\* evict.  No symmetry, which is unsound for liveness.
CONSTANTS
  Openers = {o1, o2}
  Hosts = {h1, h2, h3}
  Lanes = {l1, l2}
  NoLane = NoLane
  Nobody = Nobody
  Closer = Closer
  MaxLive = 2
SPECIFICATION FairSpec
INVARIANTS
  CachedIsOpen
  OneLanePerHost
  RunningIsTracked
PROPERTIES
  OpenChannelsKeepTheirLane
  QueueMoves
  CloseEnds
CHECK_DEADLOCK FALSE
