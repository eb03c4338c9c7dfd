\* Three objects and four descriptors: a move, a copy and a third party
\* that may be hit, with a number to spare. The program stops (no deadlock
\* check) once a destructor has thrown.
CONSTANTS
  Fds = {f1, f2, f3, f4}
  Objs = {o1, o2, o3}
  NoFd = NoFd
  Dead = Dead
SYMMETRY Symmetry
SPECIFICATION Spec
INVARIANTS
  TypeOK
  ExclusiveOwnership
  TerminatesOnlyAfterFault
PROPERTY LeaksOnlyByMoveAssign
CHECK_DEADLOCK FALSE
