\* Packets and frames of up to two chunks, so that something can happen between
\* the chunks of one; three ticks of silence, so that each direction can be
\* silent while the other is not.
CONSTANTS
  Modes = {"packets", "stream", "tcp"}
  MaxChunks = 2
  Idle = 3
SPECIFICATION BridgeFairSpec
INVARIANTS
  FramesAreWhole
  IdleMeansSilent
PROPERTIES
  PingIsAnswered
CHECK_DEADLOCK FALSE
