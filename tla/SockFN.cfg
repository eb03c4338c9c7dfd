\* Up to three candidates: one that fails, one that is interrupted, and one
\* more behind it; every order of the two families.
CONSTANT MaxList = 3
SPECIFICATION FairSpec
INVARIANTS
  TypeOK
  NoSocketLeft
  ListFreedOnce
  ReturnsUsableSocket
  FirstThatConnects
PROPERTY CallEnds
