\* Two tasks whose answers come in chunks of one or two units; the lane has room
\* for two packets, the process for one more, and others compete for it.
CONSTANTS
  Sizes = {1, 2}
  MaxPacket = 2
  ChannelRequests = 2
  QueueLimit = 2
  ByteLimit = 3
  LaneLimit = 4
  ProcessLimit = 5
  ReplyLimit = 3
SPECIFICATION H2FairSpec
INVARIANTS
  ReplyBytesExact
  RecoveryIsInformed
PROPERTIES
  TransportErrorReachesClient
  FailedBridgeEnds
CHECK_DEADLOCK FALSE
