\* Buffers of two characters, one to put back, five characters: three fills.
\* The system stops when a character has been stored beyond the buffer.
CONSTANTS
  BufSz = 2
  PbackSz = 1
  MaxChars = 5
SPECIFICATION Spec
INVARIANTS
  NothingLostOrRepeated
PROPERTY ImplementsCharStream
CHECK_DEADLOCK FALSE
