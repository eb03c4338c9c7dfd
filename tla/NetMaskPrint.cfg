\* INET addresses of three bits, INET6 addresses of two bytes of two bits:
\* a mask may end within a byte, at the end of one, and fill both.
CONSTANTS
  InetBits = 3
  Bytes = 2
  ByteBits = 2
  Bad = Bad
  NoText = NoText
SPECIFICATION Spec
INVARIANT PrintedIsMatched
