\* The same, up to the first character that has no room.
CONSTANTS
  BufSz = 2
  PbackSz = 1
  MaxChars = 5
SPECIFICATION Spec
INVARIANT PptrInBuffer
CHECK_DEADLOCK FALSE
