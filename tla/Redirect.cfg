\* All requests over six descriptor numbers, with every set of them open:
\* three sources beyond the standard descriptors can all be different. The
\* child is done when its program runs or it has aborted.
CONSTANT MaxFd = 5
SPECIFICATION ChildSpec
INVARIANTS
  ChildTypeOK
  OrderlyIsServed
  OnlyOrderlyIsServed
  OthersInherited
CHECK_DEADLOCK FALSE
