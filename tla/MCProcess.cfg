\* Two objects and two pids: a pid that is reaped through one object comes
\* back as the child of the other, or as a stranger.
CONSTANTS
  Pids <- TwoPids
  Objs = {o1, o2}
  Foreign = Foreign
  MaxScopes = 2
  ForkMayFail = FALSE
SPECIFICATION FairSpec
INVARIANTS
  TypeOK
  DesignatesOwnChild
  NoChildUnattended
  StatusIsOwnChilds
  AnswersMatchChild
  BlockedByOpenScopes
  DestructorNeverThrows
  SignalsOnlyOwnChild
PROPERTIES
  DestructorReturns
