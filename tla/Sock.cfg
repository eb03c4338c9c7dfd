\* Two characters: one flushed, one late.  Every object ends.
CONSTANT MaxChars = 2
SPECIFICATION Spec
INVARIANTS
  TypeOK
  OneOwner
  LeaksOnlyNewStreams
  EndReachesPeer
  LateOutput
CHECK_DEADLOCK FALSE
