\* One request with an open stream and one that arrives after the GOAWAY.
CONSTANTS
  Requests = {r1, r2}
  NoRequest = NoRequest
  MaxGen = 2
SPECIFICATION FairSpec
PROPERTIES
  ReconnectDropsOnlyIdle
CHECK_DEADLOCK FALSE
