CONSTANTS
  MaxSize = 13
  Byte <- Bytes
  Blank <- NoByte
  Lengths = {1, 2}
  WireSize = 4
  MaxPackets = 3
SPECIFICATION FairPackets
INVARIANT Reliable
PROPERTY EachArrives
CHECK_DEADLOCK FALSE
