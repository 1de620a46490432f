SPECIFICATION RecvFairSpec
CONSTANTS
  BufferSize = 6
  HeaderSize = 2
  PacketSizes = {2, 3, 5}
  Count = 4
  JunkSizes = {0, 1, 2, 4, 9}
INVARIANT ParseSafe
PROPERTY StreamGetsThrough
CHECK_DEADLOCK FALSE
