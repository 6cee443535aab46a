\* Three packets of one key overflow a history of two; a fourth request is a
\* replay, a packet sent twice, or one of another key.
CONSTANTS
  b1 = b1
  b2 = b2
  b3 = b3
  b4 = b4
  b5 = b5
  k1 = k1
  k2 = k2
  Bodies <- FiveBodies
  KeyOf <- FiveKeys
  NoKey = NoKey
  Replies = {p1}
  NoReply = NoReply
  ChannelRequests = 3
  HistoryPackets = 2
  MaxAttempts = 2
  MaxReplays = 2
  MaxRequest = 4
SPECIFICATION Spec
SYMMETRY BodySymmetry
INVARIANTS
  EntriesMatchRequests
  OneReplayPerPacket
PROPERTIES
  NewestIsKept
  RetiredOutlivesAnswered
  AnswerIsAwaited
CHECK_DEADLOCK FALSE
