CONSTANTS
  MaxSize = 5
  Byte <- Bytes
  Blank <- NoByte
  Lengths = {1}
  WireSize = 4
  MaxPackets = 2
SPECIFICATION PacketSpec
INVARIANT NoFault
CHECK_DEADLOCK FALSE
