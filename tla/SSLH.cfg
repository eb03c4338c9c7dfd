\* Two objects move the handles of one connection or of two; one certificate
\* is good and one bad; a record may come before the end. The client may have
\* no socket left to give, and shutrd() may wait for a silent peer or shutwr()
\* for one that does not read.
SPECIFICATION Spec
CONSTANTS
  Objs = {o1, o2}
  Conns = {c1, c2}
  Good = {c1}
  None = None
  Client = Client
  MaxData = 1
INVARIANTS
  OneOwner
  VerifyIsOwn
  EofIsTheirs
  ShutInOrder
PROPERTY
  ShutdownReturns
CHECK_DEADLOCK FALSE
