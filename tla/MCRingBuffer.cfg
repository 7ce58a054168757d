CONSTANTS
  MaxSize = 4
  Byte = {x, y}
  Blank = x
SPECIFICATION RingSpec
PROPERTY IsQueue
